---------------------------- MODULE Spec2Model ----------------------------
(***************************************************************************)
(* Model of the reactive state reporter of ts-kit                          *)
(* (observability/metrics): the batch Reporter with apply / set / add /    *)
(* sub / snapshot / prune / transform / extract / watch, the Operation     *)
(* functions set / add / sub and the shallowEqual comparator.              *)
(*                                                                         *)
(* JavaScript objects live in a heap (a sequence of maps, a reference is   *)
(* an index), so that "a copy" and "the same object" are different things. *)
(***************************************************************************)
EXTENDS Integers, Sequences, FiniteSets, TLC

(***************************************************************************)
(* Bounds of the model.                                                    *)
(***************************************************************************)
\* number of mutating reporter calls (apply/set/add/sub/prune/transform) in a run
\* of the specifications that follow the streams
MaxCalls == 2
\* the same, for the specifications that take every batch, or a caller that writes
MaxBatchCalls == 1
\* number of items of one apply(...items) batch
MaxBatch == 2
\* numbers stay within -MaxNum .. MaxNum
MaxNum == 2
\* number of read-only calls that hand an object to the caller (snapshot/extract)
MaxReads == 1
\* number of writes the caller makes to objects it holds
MaxWrites == 1
\* calls of extract() in a row
MaxExtracts == 2
\* asynchronous tasks that call the reporter
MaxTasks == 2
\* nested calls the call stack holds before a RangeError is thrown
MaxStack == 4
MaxRetries == 2
MaxNodes == 4
MaxHttpCalls == 2
MaxRows == 3
MaxCols == 2
MaxSubjectCalls == 3
MaxOtherWrites == 1
MaxObservers == 2
MaxReentrantCalls == 2

(***************************************************************************)
(* ReporterValue: string | number | boolean | null | undefined | object.   *)
(* A value is a record with the result of typeof, a numeric payload and a  *)
(* textual payload ("NaN" marks the not-a-number value).                   *)
(***************************************************************************)
Num(n) == [type |-> "number", num |-> n, str |-> ""]
NaN == [type |-> "number", num |-> 0, str |-> "NaN"]
Str(s) == [type |-> "string", num |-> 0, str |-> s]
Undefined == [type |-> "undefined", num |-> 0, str |-> ""]
Null == [type |-> "null", num |-> 0, str |-> ""]
\* the number -0 ("-0" marks the sign; Num(0) is +0)
NegZero == [type |-> "number", num |-> 0, str |-> "-0"]
\* a reference to the object or array r
Ref(r) == [type |-> "object", num |-> r, str |-> ""]

IsNaN(v) == v.type = "number" /\ v.str = "NaN"

\* typeof v
TypeOf(v) == IF v.type = "null" THEN "object" ELSE v.type

\* The keys a state map can have.
Keys == {"a", "b"}

\* The empty object {}.
EmptyMap == [k \in {} |-> Undefined]

\* o[k]: reading a key an object does not have gives undefined
Get(o, k) == IF k \in DOMAIN o THEN o[k] ELSE Undefined

\* Object.assign(target, delta) / { ...target, ...delta }
\* variant: the delta replaces the target
AssignReplace(target, delta) == delta

Assign(target, delta) ==
  [k \in (DOMAIN target) \cup (DOMAIN delta) |->
     IF k \in DOMAIN delta THEN delta[k] ELSE target[k]]

\* { [key]: value }
Single(key, value) == [k \in {key} |-> value]

(***************************************************************************)
(* Object.is(x, y): SameValue. NaN is the same value as NaN although       *)
(* NaN === NaN is false; values of different types are never the same.     *)
(***************************************************************************)
StrictEquals(x, y) ==
  /\ x.type = y.type
  /\ ~IsNaN(x) /\ ~IsNaN(y)
  /\ x.num = y.num
  /\ x.type # "number" => x.str = y.str

\* variant: the comparison is ===
ObjectIsStrict(x, y) == StrictEquals(x, y)

ObjectIs(x, y) ==
  IF x.type # y.type THEN FALSE
  ELSE IF IsNaN(x) \/ IsNaN(y) THEN IsNaN(x) /\ IsNaN(y)
  ELSE x.num = y.num /\ x.str = y.str

(***************************************************************************)
(* shallowEqual(a, b) of objects/shallow-equal.ts on two objects: same     *)
(* number of keys, every key of a is an own key of b, values Object.is.    *)
(***************************************************************************)
\* variant: the values compared with === instead of Object.is
shallowEqualStrict(a, b) ==
  /\ Cardinality(DOMAIN a) = Cardinality(DOMAIN b)
  /\ \A key \in DOMAIN a :
       /\ key \in DOMAIN b
       /\ StrictEquals(a[key], b[key])

\* variant: the key counts are not compared
shallowEqualNoCount(a, b) ==
  \A key \in DOMAIN a :
    /\ key \in DOMAIN b
    /\ ObjectIs(a[key], b[key])

shallowEqual(a, b) ==
  /\ Cardinality(DOMAIN a) = Cardinality(DOMAIN b)
  /\ \A key \in DOMAIN a :
       /\ key \in DOMAIN b
       /\ ObjectIs(a[key], b[key])

(***************************************************************************)
(* objects/equality.ts. The arguments are primitives or references to the  *)
(* objects of EqHeap; an object has a kind (what Object.prototype.toString *)
(* tells apart: a plain object or an array) and its own enumerable         *)
(* properties, an array's being its indices. Objects 7 and 8 each hold a   *)
(* reference to themselves. No argument is a Map, a Set or a Date.         *)
(***************************************************************************)
Obj(props) == [kind |-> "object", props |-> props]
Arr(props) == [kind |-> "array", props |-> props]

EqHeap ==
  << Obj(Single("a", Num(0))), Obj(Single("a", NegZero)),
     Obj(Single("a", NaN)), Obj(Single("a", NaN)),
     Arr(Single("0", Ref(1))), Arr(Single("0", Ref(2))),
     Obj(Single("a", Ref(7))), Obj(Single("a", Ref(8))),
     Obj([k \in {"a", "b"} |-> IF k = "a" THEN Num(1) ELSE Undefined]),
     Obj(Single("a", Num(1))), Obj(Single("a", Null)), Obj(Single("a", Undefined)),
     Obj(Single("b", Num(1))), Arr(Single("0", Num(0))), Obj(Single("0", Num(0))) >>

EqPrimitives == {Num(0), NegZero, Num(1), NaN, Null, Undefined, Str("s")}

EqValues == EqPrimitives \cup {Ref(r) : r \in 1..Len(EqHeap)}

\* Object.keys(o), in the order the properties were created
KeyOrder(o) == SelectSeq(<<"0", "1", "a", "b">>, LAMBDA k : k \in DOMAIN o.props)

\* shallowEqual(a, b) of equality.ts on two references
shallowEqualRefs(a, b) ==
  IF StrictEquals(a, b) THEN TRUE
  ELSE shallowEqual(EqHeap[a.num].props, EqHeap[b.num].props)

(***************************************************************************)
(* deepEqual(a, b). depth is the number of calls of deepEqual on the call  *)
(* stack; a call that does not fit on the stack throws a RangeError, which *)
(* no caller on the way catches. The result is "true", "false" or          *)
(* "RangeError".                                                           *)
(***************************************************************************)
RECURSIVE deepEqual(_, _, _)
RECURSIVE deepEqualProps(_, _, _, _, _)

\* the loop over the keys (or a.every over the items), from the i-th key on
deepEqualProps(keys, oa, ob, i, depth) ==
  IF i > Len(keys) THEN "true"
  ELSE IF oa.kind # "array" /\ keys[i] \notin DOMAIN ob.props THEN "false"
  ELSE LET r == deepEqual(oa.props[keys[i]], Get(ob.props, keys[i]), depth + 1)
       IN  IF r = "true" THEN deepEqualProps(keys, oa, ob, i + 1, depth) ELSE r

deepEqual(a, b, depth) ==
  IF depth > MaxStack THEN "RangeError"
  ELSE IF StrictEquals(a, b) THEN "true"
  ELSE IF ObjectIs(a, b) THEN "true"
  ELSE IF TypeOf(a) # TypeOf(b) THEN "false"
  ELSE IF TypeOf(a) # "object" \/ a = Null \/ b = Null THEN "false"
  ELSE LET oa == EqHeap[a.num]
           ob == EqHeap[b.num]
       IN  IF oa.kind # ob.kind THEN "false"
           ELSE IF Cardinality(DOMAIN oa.props) # Cardinality(DOMAIN ob.props) THEN "false"
           ELSE deepEqualProps(KeyOrder(oa), oa, ob, 1, depth)

(***************************************************************************)
(* fs/ensure.ts. A path is the sequence of its segments, absolute or       *)
(* relative to the working directory Cwd. The filesystem has the entries   *)
(* of Nodes; an entry is absent ("none"), a directory ("dir") or a file    *)
(* with its content ("file:" is the empty file).                           *)
(***************************************************************************)
Cwd == <<"d">>

Nodes == {<<>>, <<"d">>, <<"d", "e">>, <<"d", "f.txt">>, <<"d", "g">>}

IsFile(entry) == entry \in {"file:", "file:x"}

RECURSIVE normalize(_, _)
normalize(done, rest) ==
  IF rest = <<>> THEN done
  ELSE IF Head(rest) = "." THEN normalize(done, Tail(rest))
  ELSE IF Head(rest) = ".."
    THEN normalize(IF done = <<>> THEN done ELSE SubSeq(done, 1, Len(done) - 1), Tail(rest))
  ELSE normalize(Append(done, Head(rest)), Tail(rest))

\* path.resolve(p)
resolve(p) == normalize(<<>>, IF p.abs THEN p.segs ELSE Cwd \o p.segs)

\* path.extname(path)
extname(path) ==
  IF path # <<>> /\ path[Len(path)] = "f.txt" THEN ".txt" ELSE ""

\* path.dirname(path)
dirname(path) == IF path = <<>> THEN path ELSE SubSeq(path, 1, Len(path) - 1)

Prefixes(path) == {SubSeq(path, 1, n) : n \in 0..Len(path)}

NoErr == [kind |-> "none", code |-> "", path |-> <<>>, attempts |-> 0]

\* const x = v; F(x)
With(v, F(_)) == CHOOSE r \in {F(x) : x \in {v}} : TRUE

\* an error of the filesystem, with its code
Errno(code, path) == [kind |-> "errno", code |-> code, path |-> path, attempts |-> 0]

\* new Error(message): an error without a code
PlainError(kind, path) == [kind |-> kind, code |-> "", path |-> path, attempts |-> 0]

(***************************************************************************)
(* stat, mkdir with recursive: true, and writeFile with empty content, on  *)
(* the filesystem d. fault is the code of the failure the system raises in *)
(* this call, or "none".                                                   *)
(***************************************************************************)
Stat(d, path, fault) ==
  IF fault # "none" THEN [err |-> Errno(fault, path), entry |-> "none"]
  ELSE IF \E q \in Prefixes(path) \ {path} : IsFile(d[q])
    THEN [err |-> Errno("ENOTDIR", path), entry |-> "none"]
  ELSE IF \E q \in Prefixes(path) : d[q] = "none"
    THEN [err |-> Errno("ENOENT", path), entry |-> "none"]
  ELSE [err |-> NoErr, entry |-> d[path]]

Mkdir(d, path, fault) ==
  IF fault # "none" THEN [err |-> Errno(fault, path), disk |-> d]
  ELSE IF \E q \in Prefixes(path) \ {path} : IsFile(d[q])
    THEN [err |-> Errno("ENOTDIR", path), disk |-> d]
  ELSE IF IsFile(d[path]) THEN [err |-> Errno("EEXIST", path), disk |-> d]
  ELSE [err |-> NoErr,
        disk |-> [q \in Nodes |-> IF q \in Prefixes(path) THEN "dir" ELSE d[q]]]

WriteFile(d, path, fault) ==
  IF fault # "none" THEN [err |-> Errno(fault, path), disk |-> d]
  ELSE IF \E q \in Prefixes(path) \ {path} : IsFile(d[q])
    THEN [err |-> Errno("ENOTDIR", path), disk |-> d]
  ELSE IF \E q \in Prefixes(path) \ {path} : d[q] = "none"
    THEN [err |-> Errno("ENOENT", path), disk |-> d]
  ELSE IF d[path] = "dir" THEN [err |-> Errno("EISDIR", path), disk |-> d]
  ELSE [err |-> NoErr, disk |-> [d EXCEPT ![path] = "file:"]]

(***************************************************************************)
(* ensureDirectoryWithRetry and ensureFileWithRetry: the filesystem they   *)
(* leave, the error they throw (NoErr when they return) and created.       *)
(***************************************************************************)
\* the directory is created without a look at what is there
ensureDirectoryNoStat(d, dirPath, fStat, fMkdir) ==
  LET mk == Mkdir(d, dirPath, fMkdir)
  IN  IF mk.err = NoErr /\ d[dirPath] # "none"
        THEN [disk |-> d, err |-> Errno("EEXIST", dirPath), created |-> FALSE]
        ELSE [disk |-> mk.disk, err |-> mk.err, created |-> mk.err = NoErr]

ensureDirectoryWithRetry(d, dirPath, fStat, fMkdir) ==
  With(Stat(d, dirPath, fStat), LAMBDA st :
    IF st.err = NoErr
      THEN IF st.entry # "dir"
             THEN [disk |-> d, err |-> PlainError("notDirectory", dirPath), created |-> FALSE]
             ELSE [disk |-> d, err |-> NoErr, created |-> FALSE]
    ELSE IF st.err.code = "ENOENT"
      THEN With(Mkdir(d, dirPath, fMkdir), LAMBDA mk :
             [disk |-> mk.disk, err |-> mk.err, created |-> mk.err = NoErr])
    ELSE IF st.err.code \in {"EACCES", "EPERM"}
      THEN [disk |-> d, err |-> PlainError("permission", dirPath), created |-> FALSE]
    ELSE IF st.err.code = "ENOSPC"
      THEN [disk |-> d, err |-> PlainError("noSpace", dirPath), created |-> FALSE]
    ELSE [disk |-> d, err |-> st.err, created |-> FALSE])

ensureFileWithRetry(d, filePath, fStat, fWrite) ==
  With(Stat(d, filePath, fStat), LAMBDA st :
    IF st.err = NoErr
      THEN IF ~IsFile(st.entry)
             THEN [disk |-> d, err |-> PlainError("notFile", filePath), created |-> FALSE]
             ELSE [disk |-> d, err |-> NoErr, created |-> FALSE]
    ELSE IF st.err.code = "ENOENT"
      THEN With(WriteFile(d, filePath, fWrite), LAMBDA wr :
             [disk |-> wr.disk, err |-> wr.err, created |-> wr.err = NoErr])
    ELSE [disk |-> d, err |-> st.err, created |-> FALSE])

TransientCodes == {"EMFILE", "ENFILE", "EAGAIN", "EBUSY", "ETIMEDOUT", "EIO"}

\* every error with a code is retried
isTransientErrorAnyCode(error) == error.code # ""

isTransientError(error) == error.code \in TransientCodes

(***************************************************************************)
(* The body of the try block of ensure in one attempt. fault names the     *)
(* call the system fails in this attempt (at most one call of an attempt   *)
(* can fail, since every failure other than stat's ENOENT ends it) and the *)
(* code it fails with.                                                     *)
(***************************************************************************)
NoFault == [at |-> "none", code |-> "none"]

FaultAt(fault, at) == IF fault.at = at THEN fault.code ELSE "none"

TryBody(d, normalizedPath, touchFile, fault) ==
  LET isLikelyFile == extname(normalizedPath) # "" \/ touchFile
      targetDir == IF isLikelyFile THEN dirname(normalizedPath) ELSE normalizedPath
  IN  With(ensureDirectoryWithRetry(d, targetDir, FaultAt(fault, "statDir"),
                                    FaultAt(fault, "mkdir")), LAMBDA dir :
        IF dir.err # NoErr THEN [disk |-> dir.disk, err |-> dir.err, ret |-> NoErr]
        ELSE IF isLikelyFile /\ touchFile
          THEN With(ensureFileWithRetry(dir.disk, normalizedPath,
                                        FaultAt(fault, "statFile"),
                                        FaultAt(fault, "writeFile")), LAMBDA file :
                 IF file.err # NoErr
                   THEN [disk |-> file.disk, err |-> file.err, ret |-> NoErr]
                   ELSE [disk |-> file.disk, err |-> NoErr,
                         ret |-> [status |-> "ok", type |-> "file",
                                  created |-> file.created, path |-> normalizedPath]])
        ELSE [disk |-> dir.disk, err |-> NoErr,
              ret |-> [status |-> "ok",
                       type |-> IF isLikelyFile THEN "file" ELSE "directory",
                       created |-> dir.created, path |-> normalizedPath]])

(***************************************************************************)
(* The catch block of ensure: what it throws ("throw") or that it goes on  *)
(* to the next attempt ("retry"). The message of the error thrown after    *)
(* the last attempt has the number of attempts and the resolved path.      *)
(***************************************************************************)
\* without the test of attempt against maxRetries
CatchNoLimit(error, attempt, maxRetries, normalizedPath) ==
  IF isTransientError(error) THEN [do |-> "retry", err |-> error]
  ELSE [do |-> "throw", err |-> error]

Catch(error, attempt, maxRetries, normalizedPath) ==
  IF attempt = maxRetries
    THEN [do |-> "throw",
          err |-> [kind |-> "failedAfter", code |-> "", path |-> normalizedPath,
                   attempts |-> maxRetries + 1]]
  ELSE IF isTransientError(error) THEN [do |-> "retry", err |-> error]
  ELSE [do |-> "throw", err |-> error]

(***************************************************************************)
(* HierarchicalContainer. t.nodes are the containers constructed so far, a *)
(* container being referred to by its index (0 is null): its id, its       *)
(* parent and its children in order. t.nextGlobalId is the static counter  *)
(* of the class. The value of a container has no part in what follows.     *)
(***************************************************************************)
\* `node-${n}`
NodeId(n) == <<"node-1", "node-2", "node-3", "node-4", "node-5", "node-6">>[n]

\* new HierarchicalContainer(id, value, parent): an empty id is falsy
Construct(t, id, parent) ==
  [t EXCEPT !.nodes = Append(@, [id |-> IF id = "" THEN NodeId(t.nextGlobalId) ELSE id,
                                 parent |-> parent, children |-> <<>>]),
            !.nextGlobalId = IF id = "" THEN @ + 1 ELSE @]

RECURSIVE getRoot(_, _)
getRoot(t, n) == IF t.nodes[n].parent = 0 THEN n ELSE getRoot(t, t.nodes[n].parent)

RECURSIVE findById(_, _, _)
RECURSIVE findInChildren(_, _, _, _)

\* the loop of findById over the children of n, from the i-th on
findInChildren(t, n, i, containerId) ==
  IF i > Len(t.nodes[n].children) THEN 0
  ELSE LET found == findById(t, t.nodes[n].children[i], containerId)
       IN  IF found # 0 THEN found ELSE findInChildren(t, n, i + 1, containerId)

findById(t, n, containerId) ==
  IF t.nodes[n].id = containerId THEN n ELSE findInChildren(t, n, 1, containerId)

\* this.children.push(new HierarchicalContainer(id, value, this))
addChild(t, n, id) ==
  LET made == Construct(t, id, n)
  IN  [made EXCEPT !.nodes[n].children = Append(@, Len(made.nodes))]

\* parentContainer.addChild(this.generateUniqueId(), value), or null
add(t, n, parentId) ==
  LET root == getRoot(t, n)
      parentContainer == IF parentId = "null" THEN root ELSE findById(t, root, parentId)
  IN  IF parentContainer = 0 THEN [tree |-> t, ret |-> "null"]
      ELSE [tree |-> addChild([t EXCEPT !.nextGlobalId = @ + 1], parentContainer,
                              NodeId(t.nextGlobalId)),
            ret |-> "container"]

\* parentChildren.findIndex((child) => child.id === this.id), 0 for -1
RECURSIVE findIndex(_, _, _, _)
findIndex(t, kids, i, id) ==
  IF i > Len(kids) THEN 0
  ELSE IF t.nodes[kids[i]].id = id THEN i
  ELSE findIndex(t, kids, i + 1, id)

\* parentChildren.splice(index, 1)
Splice(kids, index) == SubSeq(kids, 1, index - 1) \o SubSeq(kids, index + 1, Len(kids))

removeSelf(t, n) ==
  IF t.nodes[n].parent = 0
    THEN [tree |-> [t EXCEPT !.nodes[n].children = <<>>], ret |-> "true"]
  ELSE LET parent == t.nodes[n].parent
           index == findIndex(t, t.nodes[parent].children, 1, t.nodes[n].id)
       IN  IF index > 0
             THEN [tree |-> [t EXCEPT !.nodes[parent].children = Splice(@, index)],
                   ret |-> "true"]
             ELSE [tree |-> t, ret |-> "false"]

remove(t, n, containerId) ==
  LET containerToRemove == findById(t, getRoot(t, n), containerId)
  IN  IF containerToRemove = 0 THEN [tree |-> t, ret |-> "false"]
      ELSE removeSelf(t, containerToRemove)

\* this.children.length = 0
clear(t, n) == [t EXCEPT !.nodes[n].children = <<>>]

(***************************************************************************)
(* traverse(callback, strategy): the containers the callback is called     *)
(* with, in the order of the calls. The callback does not change the tree. *)
(***************************************************************************)
RECURSIVE dfs(_, _)
RECURSIVE dfsChildren(_, _, _)

\* for (const child of container.children) dfs(child), from the i-th child on
dfsChildren(t, kids, i) ==
  IF i > Len(kids) THEN <<>> ELSE dfs(t, kids[i]) \o dfsChildren(t, kids, i + 1)

dfs(t, container) == <<container>> \o dfsChildren(t, t.nodes[container].children, 1)

\* while (queue.length > 0): shift, callback, push the children
RECURSIVE bfs(_, _)
bfs(t, queue) ==
  IF queue = <<>> THEN <<>>
  ELSE <<Head(queue)>> \o bfs(t, Tail(queue) \o t.nodes[Head(queue)].children)

\* the children are put at the front of the queue
traverseStack(t, n, strategy) == dfs(t, n)

traverse(t, n, strategy) == IF strategy = "dfs" THEN dfs(t, n) ELSE bfs(t, <<n>>)

(***************************************************************************)
(* http/status.ts. A status is an integer; a bucket is an integer.         *)
(***************************************************************************)
HTTP_STATUS_RANGES ==
  << [category |-> "informational", min |-> 100, max |-> 199, result |-> TRUE],
     [category |-> "successful", min |-> 200, max |-> 299, result |-> TRUE],
     [category |-> "redirection", min |-> 300, max |-> 399, result |-> TRUE],
     [category |-> "clientError", min |-> 400, max |-> 499, result |-> FALSE],
     [category |-> "serverError", min |-> 500, max |-> 599, result |-> FALSE] >>

HTTPStatusCategory == {HTTP_STATUS_RANGES[i].category : i \in 1..Len(HTTP_STATUS_RANGES)}

\* the for loop over the ranges from the i-th on, and the throw after it
RECURSIVE ClassifyFrom(_, _)
ClassifyFrom(status, i) ==
  IF i > Len(HTTP_STATUS_RANGES)
    THEN [threw |-> "RangeError", category |-> "", result |-> FALSE]
  ELSE IF status >= HTTP_STATUS_RANGES[i].min /\ status <= HTTP_STATUS_RANGES[i].max
    THEN [threw |-> "", category |-> HTTP_STATUS_RANGES[i].category,
          result |-> HTTP_STATUS_RANGES[i].result]
  ELSE ClassifyFrom(status, i + 1)

\* a status outside the ranges is given the nearest category
getHTTPStatusClassificationClamped(status) ==
  IF status < HTTP_STATUS_RANGES[1].min THEN ClassifyFrom(HTTP_STATUS_RANGES[1].min, 1)
  ELSE IF status > HTTP_STATUS_RANGES[5].max THEN ClassifyFrom(HTTP_STATUS_RANGES[5].max, 1)
  ELSE ClassifyFrom(status, 1)

getHTTPStatusClassification(status) == ClassifyFrom(status, 1)

\* new HTTPStatusBuckets()
NewBuckets == [category \in HTTPStatusCategory |-> 0]

(***************************************************************************)
(* set, inc and dec: the buckets after the call and what the call returns  *)
(* or throws. how is the value written, from the bucket and the argument.  *)
(***************************************************************************)
BucketWrite(buckets, status, value(_)) ==
  LET classification == getHTTPStatusClassification(status)
      bucket == buckets[classification.category]
  IN  IF classification.threw # ""
        THEN [buckets |-> buckets, threw |-> classification.threw, before |-> 0, after |-> 0]
        ELSE [buckets |-> [buckets EXCEPT ![classification.category] = value(bucket)],
              threw |-> "", before |-> bucket, after |-> value(bucket)]

bucketsSet(buckets, status, value) == BucketWrite(buckets, status, LAMBDA bucket : value)

bucketsInc(buckets, status, count) ==
  BucketWrite(buckets, status, LAMBDA bucket : bucket + count)

\* the count is added
bucketsDecAdds(buckets, status, count) == bucketsInc(buckets, status, count)

bucketsDec(buckets, status, count) ==
  BucketWrite(buckets, status, LAMBDA bucket : bucket - count)

\* buckets.status(status)
bucketsStatus(buckets, status) ==
  LET classification == getHTTPStatusClassification(status)
  IN  IF classification.threw # ""
        THEN [threw |-> classification.threw, ret |-> 0]
        ELSE [threw |-> "", ret |-> buckets[classification.category]]

(***************************************************************************)
(* getNextMatrixItem({matrix, currentRow, currentCol, direction,           *)
(* isAvailable}). The matrix is a sequence of rows, a row a sequence of    *)
(* cells; a cell is null or an item, and carries its place and whether     *)
(* isAvailable accepts it. Rows and columns are counted from 0 as in the   *)
(* source. The result is an item or NoItem, which stands for undefined.    *)
(***************************************************************************)
NoItem == [isNull |-> FALSE, row |-> 0 - 1, col |-> 0 - 1, ok |-> FALSE]

At(row, col) == row[col + 1]

isAvailable(item) == item.ok

\* candidateItem !== undefined && candidateItem !== null && isAvailable(candidateItem)
Usable(cell) == ~cell.isNull /\ isAvailable(cell)

\* nextRowArray.some(...)
hasAvailableItem(row) == \E i \in 1..Len(row) : Usable(row[i])

\* the while loop that skips empty rows and rows without an available item
RECURSIVE SkipRows(_, _, _)

\* the row next to the current one is taken as it is
SkipRowsNone(matrix, nextRow, direction) == nextRow

SkipRows(matrix, nextRow, direction) ==
  IF nextRow >= 0 /\ nextRow < Len(matrix)
    THEN IF Len(At(matrix, nextRow)) > 0 /\ hasAvailableItem(At(matrix, nextRow))
           THEN nextRow
           ELSE SkipRows(matrix, nextRow + (IF direction = "down" THEN 1 ELSE -1), direction)
    ELSE nextRow

\* the while loop over candidateCol with the given increment
RECURSIVE Scan(_, _, _)
Scan(row, candidateCol, increment) ==
  IF candidateCol >= 0 /\ candidateCol < Len(row)
    THEN IF Usable(At(row, candidateCol)) THEN At(row, candidateCol)
         ELSE Scan(row, candidateCol + increment, increment)
    ELSE NoItem

Min(a, b) == IF a < b THEN a ELSE b

getNextMatrixItem(matrix, currentRow, currentCol, direction) ==
  IF Len(matrix) = 0 THEN NoItem
  ELSE IF currentRow < 0 \/ currentRow >= Len(matrix) THEN NoItem
  ELSE IF currentCol < 0 \/ currentCol >= Len(At(matrix, currentRow)) THEN NoItem
  ELSE IF direction \in {"up", "down"}
    THEN LET nextRow == SkipRows(matrix,
                                 currentRow + (IF direction = "down" THEN 1 ELSE -1),
                                 direction)
         IN  IF nextRow < 0 \/ nextRow >= Len(matrix) THEN NoItem
             ELSE LET nextRowArray == At(matrix, nextRow)
                      nextCol == Min(currentCol, Len(nextRowArray) - 1)
                      left == Scan(nextRowArray, nextCol, -1)
                  IN  IF nextCol < 0 \/ nextCol >= Len(nextRowArray) THEN NoItem
                      ELSE IF left # NoItem THEN left
                      ELSE Scan(nextRowArray, nextCol + 1, 1)
  ELSE LET nextRowArray == At(matrix, currentRow)
           nextCol == currentCol + (IF direction = "right" THEN 1 ELSE -1)
       IN  IF Len(nextRowArray) = 0 THEN NoItem
           ELSE Scan(nextRowArray, nextCol, IF direction = "right" THEN 1 ELSE -1)

(***************************************************************************)
(* cur + amount and cur - amount on numbers; NaN is absorbing.             *)
(***************************************************************************)
Plus(v, amount) == IF IsNaN(v) THEN NaN ELSE Num(v.num + amount)
Minus(v, amount) ==
  IF IsNaN(v) THEN NaN
  ELSE IF v = NegZero /\ amount = 0 THEN NegZero
  ELSE Num(v.num - amount)

(***************************************************************************)
(* Items of a batch: a raw delta or an Operation (a function of the        *)
(* state). kind "raw" | "set" | "add" | "sub" | "throw"; "throw" is a      *)
(* caller-written Operation that raises.                                   *)
(***************************************************************************)
Raw(delta) == [kind |-> "raw", key |-> "", value |-> Undefined, amount |-> 0, delta |-> delta]
SetOp(key, value) == [kind |-> "set", key |-> key, value |-> value, amount |-> 0, delta |-> EmptyMap]
AddOp(key, amount) == [kind |-> "add", key |-> key, value |-> Undefined, amount |-> amount, delta |-> EmptyMap]
SubOp(key, amount) == [kind |-> "sub", key |-> key, value |-> Undefined, amount |-> amount, delta |-> EmptyMap]
ThrowOp == [kind |-> "throw", key |-> "", value |-> Undefined, amount |-> 0, delta |-> EmptyMap]

IsFunction(item) == item.kind # "raw"

\* operations.ts: set(key, value)(state)
OpSet(key, value, st) == Single(key, value)

\* operations.ts: add(key, amount)(state)
OpAdd(key, amount, st) ==
  LET cur == IF TypeOf(Get(st, key)) = "number" THEN Get(st, key) ELSE Num(0)
  IN  Single(key, Plus(cur, amount))

\* variant: sub gives an absent or non-numeric key the amount itself
OpSubUnsigned(key, amount, st) ==
  IF TypeOf(Get(st, key)) = "number"
  THEN Single(key, Minus(Get(st, key), amount))
  ELSE Single(key, Num(amount))

\* operations.ts: sub(key, amount)(state)
OpSub(key, amount, st) ==
  LET cur == IF TypeOf(Get(st, key)) = "number" THEN Get(st, key) ELSE Num(0)
  IN  Single(key, Minus(cur, amount))

\* (item as Operation)(next)
CallOp(item, st) ==
  CASE item.kind = "set" -> OpSet(item.key, item.value, st)
    [] item.kind = "add" -> OpAdd(item.key, item.amount, st)
    [] item.kind = "sub" -> OpSub(item.key, item.amount, st)
    [] OTHER -> EmptyMap

Throws(item, st) == item.kind = "throw"


(***************************************************************************)
(* Reporter.apply, the fold: the delta of an item is the item itself (raw) *)
(* or the Operation called with the working copy `next`; the delta is      *)
(* merged into `next` with Object.assign before the next item is looked    *)
(* at. The result says whether an Operation threw, and the working copy.   *)
(***************************************************************************)
ItemDelta(item, next) ==
  IF IsFunction(item) THEN CallOp(item, next) ELSE item.delta

\* variant: every Operation is called with the state the fold started with
RECURSIVE FoldStaleFrom(_, _, _, _)
FoldStaleFrom(committed, next, items, i) ==
  IF i > Len(items) THEN [threw |-> FALSE, next |-> next]
  ELSE IF IsFunction(items[i]) /\ Throws(items[i], committed)
       THEN [threw |-> TRUE, next |-> next]
       ELSE FoldStaleFrom(committed, Assign(next, ItemDelta(items[i], committed)), items, i + 1)

FoldStale(next, items, i) == FoldStaleFrom(next, next, items, i)

RECURSIVE FoldFrom(_, _, _)
FoldFrom(next, items, i) ==
  IF i > Len(items) THEN [threw |-> FALSE, next |-> next]
  ELSE IF IsFunction(items[i]) /\ Throws(items[i], next)
       THEN [threw |-> TRUE, next |-> next]
       ELSE FoldFrom(Assign(next, ItemDelta(items[i], next)), items, i + 1)

(***************************************************************************)
(* What one call of Reporter.apply(...items) does to a committed state     *)
(* `pre`: threw (the exception leaves apply before the commit), commit     *)
(* (this.#state = next), next (the committed state after the call) and     *)
(* emits (the values handed to this.#subject.next, in order).              *)
(***************************************************************************)
\* variant: subject.next after every item of the batch
ApplyResultPerItem(pre, items) ==
  LET r == FoldFrom(pre, items, 1)
  IN  IF r.threw
      THEN [threw |-> TRUE, commit |-> FALSE, next |-> pre, emits |-> <<>>]
      ELSE IF ~shallowEqual(pre, r.next)
           THEN [threw |-> FALSE, commit |-> TRUE, next |-> r.next,
                 emits |-> [i \in 1..Len(items) |-> FoldFrom(pre, SubSeq(items, 1, i), 1).next]]
           ELSE [threw |-> FALSE, commit |-> FALSE, next |-> pre, emits |-> <<>>]

\* variant: the fold works on this.#state itself, so a throw leaves the prefix committed
ApplyResultPartial(pre, items) ==
  LET r == FoldFrom(pre, items, 1)
  IN  IF r.threw
      THEN [threw |-> TRUE, commit |-> ~shallowEqual(pre, r.next), next |-> r.next, emits |-> <<>>]
      ELSE IF ~shallowEqual(pre, r.next)
           THEN [threw |-> FALSE, commit |-> TRUE, next |-> r.next, emits |-> <<r.next>>]
           ELSE [threw |-> FALSE, commit |-> FALSE, next |-> pre, emits |-> <<>>]

ApplyResult(pre, items) ==
  LET r == FoldFrom(pre, items, 1)
  IN  IF r.threw
      THEN [threw |-> TRUE, commit |-> FALSE, next |-> pre, emits |-> <<>>]
      ELSE IF ~shallowEqual(pre, r.next)
           THEN [threw |-> FALSE, commit |-> TRUE, next |-> r.next, emits |-> <<r.next>>]
           ELSE [threw |-> FALSE, commit |-> FALSE, next |-> pre, emits |-> <<>>]

(***************************************************************************)
(* Predicates (state, key) => boolean handed to prune/transform/extract.   *)
(***************************************************************************)
Preds == {"true", "false", "notA", "isNumber"}

Pred(p, st, key) ==
  CASE p = "true" -> TRUE
    [] p = "false" -> FALSE
    [] p = "notA" -> key # "a"
    [] p = "isNumber" -> TypeOf(Get(st, key)) = "number"

\* predicates.every((fn) => fn(state, key))
Every(predicates, st, key) ==
  \A i \in 1..Len(predicates) : Pred(predicates[i], st, key)

\* predicates.some((fn) => fn(state, key))
Some(predicates, st, key) ==
  \E i \in 1..Len(predicates) : Pred(predicates[i], st, key)

(***************************************************************************)
(* Reporter.prune(predicates): next holds the keys every predicate         *)
(* accepts; commit and emit when a key was removed.                        *)
(***************************************************************************)
\* variant: prune replaces the state without subject.next
PruneResultSilent(pre, predicates) ==
  LET kept == {key \in DOMAIN pre : Every(predicates, pre, key)}
      next == [key \in kept |-> pre[key]]
  IN  IF kept # DOMAIN pre
      THEN [threw |-> FALSE, commit |-> TRUE, next |-> next, emits |-> <<>>]
      ELSE [threw |-> FALSE, commit |-> FALSE, next |-> pre, emits |-> <<>>]

\* variant: a key survives when some predicate accepts it
PruneResultSome(pre, predicates) ==
  LET kept == {key \in DOMAIN pre : Some(predicates, pre, key)}
      next == [key \in kept |-> pre[key]]
  IN  IF kept # DOMAIN pre
      THEN [threw |-> FALSE, commit |-> TRUE, next |-> next, emits |-> <<next>>]
      ELSE [threw |-> FALSE, commit |-> FALSE, next |-> pre, emits |-> <<>>]

\* variant: prune commits and calls subject.next whether or not a key was removed
PruneResultAlways(pre, predicates) ==
  LET kept == {key \in DOMAIN pre : Every(predicates, pre, key)}
      next == [key \in kept |-> pre[key]]
  IN  [threw |-> FALSE, commit |-> TRUE, next |-> next, emits |-> <<next>>]

PruneResult(pre, predicates) ==
  LET kept == {key \in DOMAIN pre : Every(predicates, pre, key)}
      next == [key \in kept |-> pre[key]]
      removed == kept # DOMAIN pre
  IN  IF removed /\ ~shallowEqual(pre, next)
      THEN [threw |-> FALSE, commit |-> TRUE, next |-> next, emits |-> <<next>>]
      ELSE [threw |-> FALSE, commit |-> FALSE, next |-> pre, emits |-> <<>>]

(***************************************************************************)
(* Reporter.transform(options): next starts as a copy of the state and a   *)
(* retained key is assigned again; passesDrop is computed from             *)
(* options.keep. hasKeep says whether options.keep is given.               *)
(***************************************************************************)
TransformResult(pre, hasKeep, keep) ==
  LET passesKeep(key) == ~hasKeep \/ Some(keep, pre, key)
      passesDrop(key) == hasKeep /\ Some(keep, pre, key)
      removed == \E key \in DOMAIN pre : ~(passesKeep(key) /\ ~passesDrop(key))
      next == pre
  IN  IF removed /\ ~shallowEqual(pre, next)
      THEN [threw |-> FALSE, commit |-> TRUE, next |-> next, emits |-> <<next>>]
      ELSE [threw |-> FALSE, commit |-> FALSE, next |-> pre, emits |-> <<>>]

(***************************************************************************)
(* Reporter.extract(predicates, mode): a new object with the keys that     *)
(* pass.                                                                   *)
(***************************************************************************)
\* variant: the mode is ignored, every predicate must hold
ExtractResultIgnoreMode(st, predicates, mode) ==
  [key \in {k \in DOMAIN st : Every(predicates, st, k)} |-> st[key]]

ExtractResult(st, predicates, mode) ==
  LET passed(key) == IF mode = "all" THEN Every(predicates, st, key)
                                     ELSE Some(predicates, st, key)
  IN  [key \in {k \in DOMAIN st : passed(k)} |-> st[key]]


(***************************************************************************)
(* The state.                                                              *)
(***************************************************************************)
VARIABLES
  heap,      \* the objects: heap[r] is the map of the object with reference r
  state,     \* this.#state: a reference
  subject,   \* the value the BehaviorSubject holds (replayed on subscribe): a reference
  subs,      \* the subscribers of metrics$ and of watch(...) streams
  snaps,     \* the objects the caller got from snapshot() and extract(): [ref, by]
  commits,   \* history: the committed states, the constructor's first
  call,      \* history: the last reporter call, its inputs and what it did
  calls,     \* number of mutating calls made
  reads,     \* number of snapshot()/extract() calls made
  writes,    \* number of writes the caller made to objects it holds
  tasks,     \* the asynchronous tasks that call the reporter: where each one is
  eq,        \* a call of shallowEqual or deepEqual: its arguments and its result
  disk,      \* the filesystem ensure() works on: what each path is
  ens,       \* the call of ensure() in progress, and what it did so far
  tree,      \* the HierarchicalContainer objects and the global id counter
  http,      \* the HTTPStatusBuckets object and the last call on it
  nav,       \* a call of getNextMatrixItem: its arguments and its result
  sv,        \* the Reporter built on a Subject: its state and the last call
  rx,        \* a reporter whose subscribers may call it back: state and observers
  pair       \* a Reporter and a MetricsReporter given the same delta

vars == <<heap, state, subject, subs, snaps, commits, call, calls, reads, writes,
          tasks, eq, disk, ens, tree, http, nav, sv, rx, pair>>

\* a step of the reporter leaves the other components alone
Later == <<http, nav, sv, rx, pair>>
OtherComponents == <<eq, disk, ens, tree, Later>>
OnlyReporter == UNCHANGED <<tasks, OtherComponents>>

Subs == {1, 2}

\* the object the caller passed to the constructor
InitialRef == 1

InitialMaps ==
  { EmptyMap,
    [k \in {"a"} |-> Num(1)],
    [k \in {"a", "b"} |-> IF k = "a" THEN Str("s") ELSE Num(0)],
    [k \in {"a", "b"} |-> IF k = "a" THEN NaN ELSE Num(1)] }

\* the items the batches of the model are made of
Items ==
  { Raw([k \in {"a", "b"} |-> Num(1)]), Raw(Single("a", NaN)),
    SetOp("a", Num(1)), AddOp("a", 1), SubOp("a", 1), ThrowOp }

\* every batch of up to MaxBatch items
Batches == UNION {[1..n -> Items] : n \in 0..MaxBatch}

\* the arguments of the calls of set, add, sub, prune and transform
SetArgs == {<<"a", Str("s")>>, <<"b", Num(1)>>}
AddArgs == {<<"a", 1>>, <<"b", 0>>}
SubArgs == {<<"a", 1>>, <<"b", 0>>}
PredLists == {<<>>, <<"notA">>, <<"isNumber">>, <<"true", "false">>, <<"notA", "isNumber">>}
KeepArgs == {<<FALSE, <<>>>>, <<TRUE, <<"notA">>>>, <<TRUE, <<"isNumber", "false">>>>}

\* a smaller choice of calls, for the specifications that follow the streams
StreamBatches ==
  { <<AddOp("a", 1), Raw(Single("b", Num(1)))>>,
    <<SetOp("a", Num(1)), ThrowOp>> }
StreamSetArgs == {<<"b", Str("s")>>, <<"a", NaN>>}
StreamAddArgs == {<<"a", 1>>}
StreamSubArgs == {<<"a", 1>>}
StreamPredLists == {<<"notA">>, <<"isNumber">>}
StreamKeepArgs == {<<TRUE, <<"notA">>>>}

WatchKeys == {{}, {"a"}, {"a", "b"}}

InRange(m) ==
  \A k \in DOMAIN m : m[k].type = "number" => m[k].num \in (0 - MaxNum)..MaxNum

NoSub ==
  [mode |-> "off", keys |-> {}, hasPrev |-> FALSE, ducPrev |-> 0, pairPrev |-> 0,
   received |-> <<>>, refs |-> <<>>, at |-> 0, updates |-> <<>>]

NoCall ==
  [op |-> "new", items |-> <<>>, preds |-> <<>>, pre |-> EmptyMap, threw |-> FALSE,
   emits |-> <<>>, recv |-> [s \in Subs |-> 0], modes |-> [s \in Subs |-> "off"],
   mode |-> "", ret |-> 0]

(***************************************************************************)
(* The components that are not part of a specification stay as they are    *)
(* here: no task, no call of an equality function, no call of ensure, no   *)
(* container.                                                              *)
(***************************************************************************)
NoTasks == <<>>
NoEq == [fn |-> "none", a |-> Undefined, b |-> Undefined, result |-> "none"]
NoDisk == <<>>
NoEnsure == [pc |-> "idle"]
NoTreeCall == [op |-> "none", node |-> 0, arg |-> "", ret |-> "none", visited |-> <<>>]
NoTree == [nodes |-> <<>>, nextGlobalId |-> 1, last |-> NoTreeCall]
NoHttp == [op |-> "none"]
NoNav == [direction |-> "none", done |-> TRUE]
NoSv == [calls |-> 0 - 1]
NoRx == [calls |-> 0 - 1]
NoPair == [calls |-> 0 - 1]

\* the components that are not in use
LaterIdle == http = NoHttp /\ nav = NoNav /\ sv = NoSv /\ rx = NoRx /\ pair = NoPair

(***************************************************************************)
(* new Reporter(initial): #state is a copy of initial, the BehaviorSubject *)
(* starts with a copy of #state.                                           *)
(***************************************************************************)
ReporterInit ==
  /\ \E initial \in InitialMaps : heap = <<initial, initial, initial>>
  /\ state = 2
  /\ subject = 3
  /\ subs = [s \in Subs |-> NoSub]
  /\ snaps = {}
  /\ commits = <<heap[2]>>
  /\ call = NoCall
  /\ calls = 0
  /\ reads = 0
  /\ writes = 0

Init ==
  /\ ReporterInit
  /\ tasks = NoTasks
  /\ eq = NoEq
  /\ disk = NoDisk
  /\ ens = NoEnsure
  /\ tree = NoTree
  /\ LaterIdle

(***************************************************************************)
(* Delivery of one value of the BehaviorSubject to one subscriber.         *)
(* metrics$ = subject.pipe(distinctUntilChanged(shallowEqual)): the first  *)
(* value passes, a later one passes when it is not shallowEqual to the     *)
(* last one that passed. A watch stream adds pairwise(), the filter on the *)
(* watched keys and the map to the current value.                          *)
(***************************************************************************)
DistinctPasses(sub, v, h) ==
  ~sub.hasPrev \/ ~shallowEqual(h[sub.ducPrev], h[v])

\* variant: keys.every instead of keys.some
WatchFilterEvery(keys, prev, curr) ==
  \A k \in keys : ~ObjectIs(Get(prev, k), Get(curr, k))

WatchFilter(keys, prev, curr) ==
  \E k \in keys : ~ObjectIs(Get(prev, k), Get(curr, k))

OnNext(sub, v, h) ==
  IF sub.mode = "metrics" /\ DistinctPasses(sub, v, h)
  THEN [sub EXCEPT !.hasPrev = TRUE, !.ducPrev = v,
                   !.received = Append(@, h[v]), !.refs = Append(@, v)]
  ELSE IF sub.mode = "watch" /\ DistinctPasses(sub, v, h)
  THEN IF WatchFilter(sub.keys, h[sub.pairPrev], h[v])
       THEN [sub EXCEPT !.hasPrev = TRUE, !.ducPrev = v, !.pairPrev = v,
                        !.received = Append(@, h[v]), !.refs = Append(@, v)]
       ELSE [sub EXCEPT !.hasPrev = TRUE, !.ducPrev = v, !.pairPrev = v]
  ELSE sub

RECURSIVE DeliverSeq(_, _, _, _)
DeliverSeq(sub, refs, i, h) ==
  IF i > Len(refs) THEN sub
  ELSE DeliverSeq(OnNext(sub, refs[i], h), refs, i + 1, h)

(***************************************************************************)
(* The effect of a mutating call with result res: the committed object     *)
(* becomes #state, every emitted value is a fresh copy ({ ...next }) that  *)
(* the BehaviorSubject stores and hands to the subscribers, synchronously  *)
(* and in order.                                                           *)
(***************************************************************************)
Effect(op, items, preds, res) ==
  LET pre == heap[state]
      h1 == IF res.commit THEN Append(heap, res.next) ELSE heap
      h2 == h1 \o res.emits
      emitted == [i \in 1..Len(res.emits) |-> Len(h1) + i]
  IN  /\ InRange(res.next)
      /\ heap' = h2
      /\ state' = IF res.commit THEN Len(h1) ELSE state
      /\ subject' = IF Len(emitted) > 0 THEN emitted[Len(emitted)] ELSE subject
      /\ subs' = [s \in Subs |-> DeliverSeq(subs[s], emitted, 1, h2)]
      /\ commits' = IF res.commit THEN Append(commits, res.next) ELSE commits
      /\ call' = [op |-> op, items |-> items, preds |-> preds, pre |-> pre,
                  threw |-> res.threw, emits |-> res.emits,
                  recv |-> [s \in Subs |-> Len(subs[s].received)],
                  modes |-> [s \in Subs |-> subs[s].mode],
                  mode |-> "", ret |-> 0]
      /\ calls' = calls + 1
      /\ UNCHANGED <<snaps, reads, writes>>

\* reporter.apply(...items)
Apply(items) ==
  Effect("apply", items, <<>>, ApplyResult(heap[state], items))

\* reporter.set(key, value): this.apply({ [key]: value })
Set(key, value) ==
  LET items == <<Raw(Single(key, value))>>
  IN  Effect("set", items, <<>>, ApplyResult(heap[state], items))

\* reporter.add(key, amount): this.apply(add(key, amount))
Add(key, amount) ==
  LET items == <<AddOp(key, amount)>>
  IN  Effect("add", items, <<>>, ApplyResult(heap[state], items))

\* reporter.sub(key, amount): this.apply(sub(key, amount))
Sub(key, amount) ==
  LET items == <<SubOp(key, amount)>>
  IN  Effect("sub", items, <<>>, ApplyResult(heap[state], items))

\* reporter.prune(predicates)
Prune(predicates) ==
  Effect("prune", <<>>, predicates, PruneResult(heap[state], predicates))

\* reporter.transform({ keep })
Transform(hasKeep, keep) ==
  Effect("transform", <<>>, keep, TransformResult(heap[state], hasKeep, keep))

(***************************************************************************)
(* reporter.snapshot(): { ...this.#state }, a new object for the caller.   *)
(* SnapshotRef is the reference the caller gets, in a heap h that already  *)
(* has the new object as its last element.                                 *)
(***************************************************************************)
\* variant: return this.#state
SnapshotRefAlias(h) == state

SnapshotRef(h) == Len(h)

Snapshot ==
  /\ heap' = Append(heap, heap[state])
  /\ snaps' = snaps \cup {[ref |-> SnapshotRef(heap'), by |-> "snapshot"]}
  /\ reads' = reads + 1
  /\ UNCHANGED <<state, subject, subs, commits, call, calls, writes>>

\* variant: extract also commits what it returns and emits it
ExtractCommitting(predicates, mode) ==
  LET next == ExtractResult(heap[state], predicates, mode)
      h == heap \o <<next, next, next>>
      n == Len(heap)
  IN  /\ heap' = h
      /\ snaps' = snaps \cup {[ref |-> n + 1, by |-> "extract"]}
      /\ state' = n + 2
      /\ subject' = n + 3
      /\ subs' = [s \in Subs |-> OnNext(subs[s], n + 3, h)]
      /\ commits' = Append(commits, next)
      /\ call' = [NoCall EXCEPT !.op = "extract", !.preds = predicates, !.mode = mode,
                                !.pre = heap[state], !.ret = n + 1,
                                !.recv = [s \in Subs |-> Len(subs[s].received)],
                                !.modes = [s \in Subs |-> subs[s].mode]]
      /\ reads' = reads + 1
      /\ UNCHANGED <<calls, writes>>

\* reporter.extract(predicates, mode): a new object for the caller
Extract(predicates, mode) ==
  /\ heap' = Append(heap, ExtractResult(heap[state], predicates, mode))
  /\ snaps' = snaps \cup {[ref |-> Len(heap'), by |-> "extract"]}
  /\ call' = [NoCall EXCEPT !.op = "extract", !.preds = predicates, !.mode = mode,
                            !.pre = heap[state], !.ret = Len(heap'),
                            !.recv = [s \in Subs |-> Len(subs[s].received)],
                            !.modes = [s \in Subs |-> subs[s].mode]]
  /\ reads' = reads + 1
  /\ UNCHANGED <<state, subject, subs, commits, calls, writes>>

(***************************************************************************)
(* this.#subject is a BehaviorSubject: a new subscription is handed the    *)
(* value it holds, synchronously, through the operators of the pipe.       *)
(***************************************************************************)
\* variant: a plain Subject, which replays nothing
NoReplay(sub) == sub

ReplayOnSubscribe(sub) == OnNext(sub, subject, heap)

\* reporter.metrics$.subscribe(...)
Subscribe(s) ==
  /\ subs[s].mode = "off"
  /\ subs' = [subs EXCEPT ![s] =
       ReplayOnSubscribe([NoSub EXCEPT !.mode = "metrics", !.at = Len(commits)])]
  /\ UNCHANGED <<heap, state, subject, snaps, commits, call, calls, reads, writes>>

(***************************************************************************)
(* reporter.watch(...keys): startWith(this.snapshot()) takes the snapshot  *)
(* when watch() is called; pairPrev holds it until the subscription.       *)
(***************************************************************************)
Watch(s, keys) ==
  /\ subs[s].mode = "off"
  /\ heap' = Append(heap, heap[state])
  /\ subs' = [subs EXCEPT ![s] =
       [NoSub EXCEPT !.mode = "created", !.keys = keys, !.pairPrev = Len(heap')]]
  /\ UNCHANGED <<state, subject, snaps, commits, call, calls, reads, writes>>

(***************************************************************************)
(* watch(...).subscribe(...): startWith feeds the snapshot to pairwise,    *)
(* then metrics$ is subscribed and replays the BehaviorSubject's value.    *)
(***************************************************************************)
SubscribeWatch(s) ==
  /\ subs[s].mode = "created"
  /\ subs' = [subs EXCEPT ![s] =
       ReplayOnSubscribe([@ EXCEPT !.mode = "watch", !.at = Len(commits)])]
  /\ UNCHANGED <<heap, state, subject, snaps, commits, call, calls, reads, writes>>

\* subscription.unsubscribe()
Unsubscribe(s) ==
  /\ subs[s].mode \in {"metrics", "watch"}
  /\ subs' = [subs EXCEPT ![s].mode = "closed"]
  /\ UNCHANGED <<heap, state, subject, snaps, commits, call, calls, reads, writes>>

(***************************************************************************)
(* MetricsReporter. Its constructor is the one of Init: #state is a copy   *)
(* of initial and the BehaviorSubject starts with a copy of #state.        *)
(* #getChanges(next) compares next with this.#state as it is when the      *)
(* projection of updates$ runs: prev is the map of #state at that time.    *)
(***************************************************************************)
getChanges(prev, next) ==
  {[key |-> key, before |-> Get(prev, key), after |-> next[key]] :
     key \in {k \in DOMAIN next : ~ObjectIs(Get(prev, k), next[k])}}

\* capture(delta): the keys of delta that differ from #state are assigned to a copy
CaptureResult(pre, delta) ==
  LET differs == {key \in DOMAIN delta : ~ObjectIs(delta[key], Get(pre, key))}
      next == Assign(pre, [key \in differs |-> delta[key]])
  IN  IF differs # {}
      THEN [threw |-> FALSE, commit |-> TRUE, next |-> next, emits |-> <<next>>]
      ELSE [threw |-> FALSE, commit |-> FALSE, next |-> pre, emits |-> <<>>]

\* delivery of the value v to a subscriber of updates$; st is #state at that time
OnUpdate(sub, v, h, st) ==
  IF sub.mode = "updates" /\ DistinctPasses(sub, v, h)
  THEN [sub EXCEPT !.hasPrev = TRUE, !.ducPrev = v,
                   !.received = Append(@, h[v]), !.refs = Append(@, v),
                   !.updates = Append(@, [changes |-> getChanges(h[st], h[v]),
                                          snapshot |-> h[v]])]
  ELSE sub

\* metricsReporter.capture(delta): #state is assigned before subject.next is called
Capture(delta) ==
  LET res == CaptureResult(heap[state], delta)
      h1 == IF res.commit THEN Append(heap, res.next) ELSE heap
      h2 == h1 \o res.emits
      st == IF res.commit THEN Len(h1) ELSE state
  IN  /\ heap' = h2
      /\ state' = st
      /\ subject' = IF res.commit THEN Len(h2) ELSE subject
      /\ subs' = [s \in Subs |->
                    IF res.commit THEN OnUpdate(subs[s], Len(h2), h2, st) ELSE subs[s]]
      /\ commits' = IF res.commit THEN Append(commits, res.next) ELSE commits
      /\ call' = [NoCall EXCEPT !.op = "capture", !.items = <<Raw(delta)>>,
                                !.pre = heap[state], !.emits = res.emits,
                                !.recv = [s \in Subs |-> Len(subs[s].received)],
                                !.modes = [s \in Subs |-> subs[s].mode]]
      /\ calls' = calls + 1
      /\ UNCHANGED <<snaps, reads, writes>>

\* metricsReporter.updates$.subscribe(...)
SubscribeUpdates(s) ==
  /\ subs[s].mode = "off"
  /\ subs' = [subs EXCEPT ![s] =
       OnUpdate([NoSub EXCEPT !.mode = "updates", !.at = Len(commits)],
                subject, heap, state)]
  /\ UNCHANGED <<heap, state, subject, snaps, commits, call, calls, reads, writes>>

(***************************************************************************)
(* What the caller does with the objects it holds. It holds the object it  *)
(* gave to the constructor, the results of snapshot() and extract(), and   *)
(* the snapshots its subscribers were handed. A write sets a key or        *)
(* deletes one.                                                            *)
(***************************************************************************)
Hacked == Str("hacked")

Written(m, key, del) ==
  IF del THEN [k \in (DOMAIN m) \ {key} |-> m[k]]
         ELSE Assign(m, Single(key, Hacked))

DeliveredRefs == UNION {{subs[s].refs[i] : i \in 1..Len(subs[s].refs)} : s \in Subs}

Write(op, r, key, del) ==
  /\ writes < MaxWrites
  /\ Written(heap[r], key, del) # heap[r]
  /\ heap' = [heap EXCEPT ![r] = Written(@, key, del)]
  /\ call' = [NoCall EXCEPT !.op = op, !.pre = heap[state]]
  /\ writes' = writes + 1
  /\ UNCHANGED <<state, subject, subs, snaps, commits, calls, reads>>

\* snap.x = ... ; delete snap.x, on a result of snapshot()
MutateSnapshot(r, key, del) ==
  /\ [ref |-> r, by |-> "snapshot"] \in snaps
  /\ Write("mutateSnapshot", r, key, del)

\* the same on a result of extract()
MutateExtracted(r, key, del) ==
  /\ [ref |-> r, by |-> "extract"] \in snaps
  /\ Write("mutateExtracted", r, key, del)

\* the same on a snapshot a subscriber was handed
MutateDelivered(r, key, del) == r \in DeliveredRefs /\ Write("mutateDelivered", r, key, del)

\* the same on the object given to the constructor
MutateInitial(key, del) == Write("mutateInitial", InitialRef, key, del)

(***************************************************************************)
(* reporter.prune([(s, k) => { s[key] = ...; return true; }]): the         *)
(* predicate is called with this.#state itself, once per key of the state; *)
(* every key passes, so nothing is removed and nothing is committed or     *)
(* emitted.                                                                *)
(***************************************************************************)
PruneMutating(key) ==
  /\ writes < MaxWrites
  /\ DOMAIN heap[state] # {}
  /\ heap' = [heap EXCEPT ![state] = Written(@, key, FALSE)]
  /\ call' = [NoCall EXCEPT !.op = "mutatePredicateState", !.pre = heap[state],
                            !.recv = [s \in Subs |-> Len(subs[s].received)],
                            !.modes = [s \in Subs |-> subs[s].mode]]
  /\ calls' = calls + 1
  /\ writes' = writes + 1
  /\ UNCHANGED <<state, subject, subs, snaps, commits, reads>>

(***************************************************************************)
(* Asynchronous tasks that each call reporter.add(TaskKey, 1), directly or *)
(* as reporter.apply(add(TaskKey, 1)). The event loop runs one task at a   *)
(* time up to its next await; apply has none, so the call is one step:     *)
(* the Operation reads the key (cur) and the result is committed and       *)
(* broadcast before another task runs.                                     *)
(***************************************************************************)
TaskKey == "b"

PendingTask == [pc |-> "pending", cur |-> Undefined]

\* variant: the task is suspended between the read of the key and the commit
TaskAddSplit(t, viaApply) ==
  \/ /\ tasks[t].pc = "pending"
     /\ tasks' = [tasks EXCEPT ![t] = [pc |-> "read", cur |-> Get(heap[state], TaskKey)]]
     /\ UNCHANGED <<heap, state, subject, subs, snaps, commits, call, calls, reads, writes>>
  \/ /\ tasks[t].pc = "read"
     /\ LET old == IF TypeOf(tasks[t].cur) = "number" THEN tasks[t].cur ELSE Num(0)
        IN  Set(TaskKey, Plus(old, 1))
     /\ tasks' = [tasks EXCEPT ![t].pc = "done"]

TaskAdd(t, viaApply) ==
  /\ tasks[t].pc = "pending"
  /\ IF viaApply THEN Apply(<<AddOp(TaskKey, 1)>>) ELSE Add(TaskKey, 1)
  /\ tasks' = [tasks EXCEPT ![t] = [pc |-> "done", cur |-> Get(heap[state], TaskKey)]]

(***************************************************************************)
(* A call of shallowEqual (on two objects) or of deepEqual (on any two     *)
(* values) with the arguments eq holds.                                    *)
(***************************************************************************)
CallShallowEqual ==
  /\ eq.fn = "none"
  /\ TypeOf(eq.a) = "object" /\ eq.a # Null
  /\ TypeOf(eq.b) = "object" /\ eq.b # Null
  /\ eq' = [eq EXCEPT !.fn = "shallowEqual",
                      !.result = IF shallowEqualRefs(eq.a, eq.b) THEN "true" ELSE "false"]

CallDeepEqual ==
  /\ eq.fn = "none"
  /\ eq' = [eq EXCEPT !.fn = "deepEqual", !.result = deepEqual(eq.a, eq.b, 1)]

(***************************************************************************)
(* ensure(p, {touchFile, maxRetries, retryDelay}). ens holds the call in   *)
(* progress: its arguments, the loop variable attempt, and what happened   *)
(* (the attempts begun, the delays slept, the error of the last failed     *)
(* attempt, the faults the system raised, the outcome). A call is a        *)
(* sequence of attempts with a sleep between two of them.                  *)
(***************************************************************************)
FaultCodes == TransientCodes \cup {"EACCES", "EPERM", "ENOSPC", "EROFS"}

Faults ==
  {NoFault} \cup
  {[at |-> at, code |-> c] : at \in {"statDir", "mkdir", "statFile", "writeFile"},
                             c \in FaultCodes}

RetryDelay == 100

NoResult == [status |-> "none"]

EnsureCall(p, touchFile, maxRetries) ==
  [pc |-> "running", p |-> p, touchFile |-> touchFile, maxRetries |-> maxRetries,
   attempt |-> 0, attempts |-> 0, sleeps |-> <<>>, lastErr |-> NoErr, faults |-> 0,
   result |-> NoResult, callNo |-> 1, first |-> NoResult, diskAfterFirst |-> <<>>]

RECURSIVE Pow2(_)
Pow2(n) == IF n = 0 THEN 1 ELSE 2 * Pow2(n - 1)

\* one pass of the while loop: the try block and, when it throws, the catch block
AttemptResult(d, e, fault) ==
  With(resolve(e.p), LAMBDA np :
    With(TryBody(d, np, e.touchFile, fault), LAMBDA try :
      With([e EXCEPT !.attempts = @ + 1, !.lastErr = try.err,
                     !.faults = @ + IF try = TryBody(d, np, e.touchFile, NoFault)
                                      THEN 0 ELSE 1], LAMBDA begun :
        [disk |-> try.disk,
         ens |-> IF try.err = NoErr
                   THEN [begun EXCEPT !.pc = "done", !.result = try.ret]
                 ELSE With(Catch(try.err, e.attempt, e.maxRetries, np), LAMBDA caught :
                   IF caught.do = "throw"
                     THEN [begun EXCEPT !.pc = "done",
                                        !.result = [status |-> "error", err |-> caught.err]]
                     ELSE [begun EXCEPT !.pc = "sleeping", !.attempt = @ + 1,
                                        !.sleeps = Append(@, RetryDelay *
                                                             Pow2(e.attempt + 1))])])))

Attempt ==
  /\ ens.pc = "running"
  /\ ens.attempt <= ens.maxRetries
  /\ \E fault \in Faults :
       \E r \in {AttemptResult(disk, ens, fault)} :
         /\ disk' = r.disk
         /\ ens' = r.ens

\* the timer of sleep fires and the loop goes on; after the loop comes a throw
Wake ==
  /\ ens.pc = "sleeping"
  /\ ens' = IF ens.attempt <= ens.maxRetries
              THEN [ens EXCEPT !.pc = "running"]
              ELSE [ens EXCEPT !.pc = "done",
                               !.result = [status |-> "error",
                                           err |-> PlainError("unexpected", resolve(ens.p))]]
  /\ UNCHANGED disk

\* after a call that returned, the caller makes the same call again
EnsureAgain ==
  /\ ens.pc = "done"
  /\ ens.callNo = 1
  /\ ens.result.status = "ok"
  /\ ens' = [EnsureCall(ens.p, ens.touchFile, ens.maxRetries) EXCEPT
               !.callNo = 2, !.first = ens.result, !.diskAfterFirst = disk]
  /\ UNCHANGED disk

(***************************************************************************)
(* The calls on a container n the caller holds (every container ever       *)
(* constructed, in the tree or removed from it). tree.last is the call     *)
(* made last: the method, the container it was called on, its argument    *)
(* and what it returned.                                                   *)
(***************************************************************************)
CallerIds == {"x", "node-1", ""}

Containers == 1..Len(tree.nodes)

Called(t, op, n, arg, ret) ==
  [t EXCEPT !.last = [op |-> op, node |-> n, arg |-> arg, ret |-> ret, visited |-> <<>>]]

AddChild(n, id) ==
  /\ Len(tree.nodes) < MaxNodes
  /\ tree' = Called(addChild(tree, n, id), "addChild", n, id, "container")

TreeAdd(n, parentId) ==
  /\ Len(tree.nodes) < MaxNodes
  /\ tree' = Called(add(tree, n, parentId).tree, "add", n, parentId,
                    add(tree, n, parentId).ret)

RemoveSelf(n) ==
  tree' = Called(removeSelf(tree, n).tree, "removeSelf", n, "", removeSelf(tree, n).ret)

Remove(n, containerId) ==
  tree' = Called(remove(tree, n, containerId).tree, "remove", n, containerId,
                 remove(tree, n, containerId).ret)

Clear(n) ==
  tree' = Called(clear(tree, n), "clear", n, "", "undefined")

Traverse(n, strategy) ==
  tree' = [tree EXCEPT !.last = [op |-> "traverse", node |-> n, arg |-> strategy,
                                 ret |-> "undefined",
                                 visited |-> traverse(tree, n, strategy)]]

(***************************************************************************)
(* The calls on an HTTPStatusBuckets object and of                         *)
(* getHTTPStatusClassification. http.last is the last call: its arguments, *)
(* what it threw and what it returned.                                     *)
(***************************************************************************)
HttpCall(op, status, n, threw, before, after, category) ==
  [op |-> op, status |-> status, n |-> n, threw |-> threw, before |-> before,
   after |-> after, category |-> category]

\* the result does not depend on the buckets: classified while they are new
Classify(status) ==
  LET c == getHTTPStatusClassification(status)
  IN  /\ http.calls = 0
      /\ http' = [http EXCEPT !.last = HttpCall("classify", status, 0, c.threw, 0, 0,
                                                c.category)]

BucketsStatus(status) ==
  LET r == bucketsStatus(http.buckets, status)
  IN  http' = [http EXCEPT !.last = HttpCall("status", status, 0, r.threw, r.ret, r.ret, "")]

BucketsCall(op, status, n, r) ==
  /\ http.calls < MaxHttpCalls
  /\ http' = [buckets |-> r.buckets, calls |-> http.calls + 1,
              last |-> HttpCall(op, status, n, r.threw, r.before, r.after, "")]

BucketsSet(status, n) == BucketsCall("set", status, n, bucketsSet(http.buckets, status, n))

BucketsInc(status, n) == BucketsCall("inc", status, n, bucketsInc(http.buckets, status, n))

BucketsDec(status, n) == BucketsCall("dec", status, n, bucketsDec(http.buckets, status, n))

\* the call of getNextMatrixItem with the arguments nav holds
CallGetNextMatrixItem ==
  /\ ~nav.done
  /\ nav' = [nav EXCEPT !.done = TRUE,
                        !.result = getNextMatrixItem(nav.matrix, nav.currentRow,
                                                     nav.currentCol, nav.direction)]

(***************************************************************************)
(* The calls a caller can make, with the arguments drawn from the given    *)
(* sets.                                                                   *)
(***************************************************************************)
Mutators(batches, setArgs, addArgs, subArgs, predLists, keepArgs) ==
  \/ \E items \in batches : Apply(items)
  \/ \E arg \in setArgs : Set(arg[1], arg[2])
  \/ \E arg \in addArgs : Add(arg[1], arg[2])
  \/ \E arg \in subArgs : Sub(arg[1], arg[2])
  \/ \E predicates \in predLists : Prune(predicates)
  \/ \E arg \in keepArgs : Transform(arg[1], arg[2])

StreamCalls ==
  /\ calls < MaxCalls
  /\ Mutators(StreamBatches, StreamSetArgs, StreamAddArgs, StreamSubArgs,
              StreamPredLists, StreamKeepArgs)

(***************************************************************************)
(* Spec: the reporter and the subscribers of metrics$.                     *)
(***************************************************************************)
Next ==
  \/ StreamCalls /\ OnlyReporter
  \/ \E s \in Subs : Subscribe(s) /\ OnlyReporter
  \/ \E s \in Subs : Unsubscribe(s) /\ OnlyReporter

Spec == Init /\ [][Next]_vars

(***************************************************************************)
(* SpecBatch: every batch of up to MaxBatch items, one subscriber.         *)
(***************************************************************************)
NextBatch ==
  \/ /\ calls < MaxBatchCalls
     /\ Mutators(Batches, SetArgs, AddArgs, SubArgs, PredLists, KeepArgs)
     /\ OnlyReporter
  \/ Subscribe(1) /\ OnlyReporter

SpecBatch == Init /\ [][NextBatch]_vars

(***************************************************************************)
(* SpecWatch: the reporter and a subscriber of a watch(...keys) stream.    *)
(***************************************************************************)
NextWatch ==
  \/ StreamCalls /\ OnlyReporter
  \/ \E keys \in WatchKeys : Watch(1, keys) /\ OnlyReporter
  \/ SubscribeWatch(1) /\ OnlyReporter
  \/ Unsubscribe(1) /\ OnlyReporter

SpecWatch == Init /\ [][NextWatch]_vars

(***************************************************************************)
(* SpecAlias: the reporter, a subscriber, and a caller that writes to the  *)
(* objects the reporter handed to it.                                      *)
(***************************************************************************)
AliasBatches == {<<AddOp("a", 1), Raw(Single("b", Num(1)))>>}
AliasSetArgs == {<<"b", Str("s")>>}
AliasPredLists == {<<"notA">>}

NextAlias ==
  \/ /\ calls < MaxBatchCalls
     /\ Mutators(AliasBatches, AliasSetArgs, StreamAddArgs, StreamSubArgs,
                 AliasPredLists, StreamKeepArgs)
     /\ OnlyReporter
  \/ Subscribe(1) /\ OnlyReporter
  \/ reads < MaxReads /\ Snapshot /\ OnlyReporter
  \/ reads < MaxReads /\ \E mode \in {"all", "any"} : Extract(<<"notA">>, mode) /\ OnlyReporter
  \/ \E r \in 1..Len(heap), del \in BOOLEAN : MutateSnapshot(r, "a", del) /\ OnlyReporter
  \/ \E r \in 1..Len(heap), del \in BOOLEAN : MutateExtracted(r, "a", del) /\ OnlyReporter
  \/ \E r \in 1..Len(heap), del \in BOOLEAN : MutateDelivered(r, "a", del) /\ OnlyReporter
  \/ \E del \in BOOLEAN : MutateInitial("a", del) /\ OnlyReporter
  \/ calls < MaxBatchCalls /\ PruneMutating("a") /\ OnlyReporter

SpecAlias == Init /\ [][NextAlias]_vars

(***************************************************************************)
(* SpecExtract: the reporter, a subscriber of metrics$, a subscriber of a  *)
(* watch stream, and a caller of extract().                                *)
(***************************************************************************)
ExtractPredLists == {<<>>, <<"notA", "isNumber">>}

NextExtract ==
  \/ /\ calls < MaxBatchCalls
     /\ Mutators(AliasBatches, AliasSetArgs, StreamAddArgs, StreamSubArgs,
                 AliasPredLists, StreamKeepArgs)
     /\ OnlyReporter
  \/ /\ reads < MaxExtracts
     /\ \E predicates \in ExtractPredLists, mode \in {"all", "any"} :
          Extract(predicates, mode)
     /\ OnlyReporter
  \/ Subscribe(1) /\ OnlyReporter
  \/ Watch(2, {"a", "b"}) /\ OnlyReporter
  \/ SubscribeWatch(2) /\ OnlyReporter

SpecExtract == Init /\ [][NextExtract]_vars

(***************************************************************************)
(* SpecMetrics: a MetricsReporter and the subscribers of updates$.         *)
(***************************************************************************)
CaptureDeltas ==
  { Single("a", Num(2)), [k \in {"a", "b"} |-> Num(1)], Single("b", Str("s")) }

NextMetrics ==
  \/ calls < MaxCalls /\ \E delta \in CaptureDeltas : Capture(delta) /\ OnlyReporter
  \/ \E s \in Subs : SubscribeUpdates(s) /\ OnlyReporter

SpecMetrics == Init /\ [][NextMetrics]_vars

(***************************************************************************)
(* SpecTasks: the reporter, a subscriber, and the tasks.                   *)
(***************************************************************************)
InitTasks ==
  /\ ReporterInit
  /\ tasks = [t \in 1..MaxTasks |-> PendingTask]
  /\ eq = NoEq
  /\ disk = NoDisk
  /\ ens = NoEnsure
  /\ tree = NoTree
  /\ LaterIdle

NextTasks ==
  \/ \E t \in 1..MaxTasks, viaApply \in BOOLEAN :
       TaskAdd(t, viaApply) /\ UNCHANGED OtherComponents
  \/ \E s \in Subs : Subscribe(s) /\ OnlyReporter

SpecTasks == InitTasks /\ [][NextTasks]_vars

(***************************************************************************)
(* SpecEqual: one call of shallowEqual or deepEqual on every pair of the   *)
(* values. The reporter is not used.                                       *)
(***************************************************************************)
ReporterUnused == ReporterInit /\ heap[1] = EmptyMap /\ tasks = NoTasks

ReporterVars == <<heap, state, subject, subs, snaps, commits, call, calls, reads,
                  writes, tasks>>

InitEqual ==
  /\ ReporterUnused
  /\ eq \in {[fn |-> "none", a |-> x, b |-> y, result |-> "none"] :
               x \in EqValues, y \in EqValues}
  /\ disk = NoDisk
  /\ ens = NoEnsure
  /\ tree = NoTree
  /\ LaterIdle

NextEqual ==
  \/ CallShallowEqual /\ UNCHANGED <<ReporterVars, disk, ens, tree, Later>>
  \/ CallDeepEqual /\ UNCHANGED <<ReporterVars, disk, ens, tree, Later>>

SpecEqual == InitEqual /\ [][NextEqual]_vars

(***************************************************************************)
(* SpecEnsure: a call of ensure on one of the paths, on one of the         *)
(* filesystems of Disks, with the system free to fail any call, followed   *)
(* by the same call again when the first returned. SpecEnsureLive adds     *)
(* that an attempt that can run does run and that the timer of a sleep     *)
(* fires.                                                                  *)
(***************************************************************************)
EnsurePaths ==
  { [abs |-> TRUE, segs |-> <<"d", "e">>],
    [abs |-> TRUE, segs |-> <<"d", "f.txt">>],
    [abs |-> TRUE, segs |-> <<"d", "e", "..", "g">>],
    [abs |-> FALSE, segs |-> <<".", "g">>] }

DiskWith(dirs, files) ==
  [q \in Nodes |-> IF q = <<>> \/ q \in dirs THEN "dir"
                   ELSE IF q \in files THEN "file:x" ELSE "none"]

Disks ==
  { DiskWith({}, {}),
    DiskWith({<<"d">>}, {}),
    DiskWith({}, {<<"d">>}),
    DiskWith({<<"d">>, <<"d", "e">>}, {}),
    DiskWith({<<"d">>}, {<<"d", "g">>}),
    DiskWith({<<"d">>, <<"d", "g">>}, {}),
    DiskWith({<<"d">>}, {<<"d", "e">>}) }

InitEnsure ==
  /\ ReporterUnused
  /\ eq = NoEq
  /\ disk \in Disks
  /\ ens \in {EnsureCall(p, touchFile, maxRetries) :
                p \in EnsurePaths, touchFile \in BOOLEAN, maxRetries \in 0..MaxRetries}
  /\ tree = NoTree
  /\ LaterIdle

\* a step of ensure leaves the other components alone
OnlyEnsure == UNCHANGED <<ReporterVars, eq, tree, Later>>

NextEnsure ==
  \/ Attempt /\ OnlyEnsure
  \/ Wake /\ OnlyEnsure
  \/ EnsureAgain /\ OnlyEnsure

SpecEnsure == InitEnsure /\ [][NextEnsure]_vars

SpecEnsureLive ==
  /\ InitEnsure
  /\ [][NextEnsure]_vars
  /\ WF_vars(Attempt /\ OnlyEnsure)
  /\ WF_vars(Wake /\ OnlyEnsure)

(***************************************************************************)
(* SpecTree: a root constructed with an id of the caller or without one,   *)
(* then any calls of addChild, add, removeSelf, remove and clear on the    *)
(* containers the caller holds, with ids of the caller, generated ids and  *)
(* ids no container has.                                                   *)
(***************************************************************************)
InitTree ==
  /\ ReporterUnused
  /\ eq = NoEq
  /\ disk = NoDisk
  /\ ens = NoEnsure
  /\ \E id \in CallerIds : tree = Construct(NoTree, id, 0)
  /\ LaterIdle

OnlyTree == UNCHANGED <<ReporterVars, eq, disk, ens, Later>>

SearchIds == {"x", "y", "node-1", "node-2"}

NextTree ==
  \/ \E n \in Containers, id \in CallerIds : AddChild(n, id) /\ OnlyTree
  \/ \E n \in Containers, parentId \in SearchIds \cup {"null"} :
       TreeAdd(n, parentId) /\ OnlyTree
  \/ \E n \in Containers : RemoveSelf(n) /\ OnlyTree
  \/ \E n \in Containers, id \in SearchIds : Remove(n, id) /\ OnlyTree
  \/ \E n \in Containers : Clear(n) /\ OnlyTree

SpecTree == InitTree /\ [][NextTree]_vars

(***************************************************************************)
(* SpecTraverse: a tree built with generated ids by addChild, cut by       *)
(* removeSelf and clear, and traversed from any container in both          *)
(* strategies.                                                             *)
(***************************************************************************)
InitTraverse ==
  /\ ReporterUnused
  /\ eq = NoEq
  /\ disk = NoDisk
  /\ ens = NoEnsure
  /\ tree = Construct(NoTree, "", 0)
  /\ LaterIdle

NextTraverse ==
  \/ \E n \in Containers : AddChild(n, "") /\ OnlyTree
  \/ \E n \in Containers : RemoveSelf(n) /\ OnlyTree
  \/ \E n \in Containers : Clear(n) /\ OnlyTree
  \/ \E n \in Containers, strategy \in {"dfs", "bfs"} : Traverse(n, strategy) /\ OnlyTree

SpecTraverse == InitTraverse /\ [][NextTraverse]_vars

(***************************************************************************)
(* SpecHttp: a new HTTPStatusBuckets object, calls of set, inc and dec     *)
(* with a status at or next to the end of a range, and classifications of  *)
(* every status from ten below the first range to ten above the last.      *)
(***************************************************************************)
FirstStatus == HTTP_STATUS_RANGES[1].min
LastStatus == HTTP_STATUS_RANGES[Len(HTTP_STATUS_RANGES)].max

EdgeStatuses ==
  UNION {{HTTP_STATUS_RANGES[i].min - 1, HTTP_STATUS_RANGES[i].min,
          HTTP_STATUS_RANGES[i].max, HTTP_STATUS_RANGES[i].max + 1} :
           i \in {1, 3, 5}} \cup {0 - 1, 0}

AllStatuses == (FirstStatus - 10)..(LastStatus + 10)

InitHttp ==
  /\ ReporterUnused
  /\ eq = NoEq
  /\ disk = NoDisk
  /\ ens = NoEnsure
  /\ tree = NoTree
  /\ http = [buckets |-> NewBuckets, calls |-> 0,
             last |-> HttpCall("new", 0, 0, "", 0, 0, "")]
  /\ nav = NoNav /\ sv = NoSv /\ rx = NoRx /\ pair = NoPair

OnlyHttp == UNCHANGED <<ReporterVars, eq, disk, ens, tree, nav, sv, rx, pair>>

NextHttp ==
  \/ \E status \in AllStatuses : Classify(status) /\ OnlyHttp
  \/ \E status \in EdgeStatuses : BucketsStatus(status) /\ OnlyHttp
  \/ \E status \in EdgeStatuses, n \in 0..MaxNum : BucketsSet(status, n) /\ OnlyHttp
  \/ \E status \in EdgeStatuses, n \in 1..MaxNum : BucketsInc(status, n) /\ OnlyHttp
  \/ \E status \in EdgeStatuses, n \in 1..MaxNum : BucketsDec(status, n) /\ OnlyHttp

SpecHttp == InitHttp /\ [][NextHttp]_vars

(***************************************************************************)
(* The Reporter of observability/metrics/reporter.ts that is built on a    *)
(* Subject. Each operator gives what a call does to the committed state    *)
(* `pre`: threw, next (the state after the call) and emits (the number of  *)
(* calls of this.#subject.next).                                           *)
(***************************************************************************)
\* !v
Falsy(v) ==
  \/ v.type \in {"undefined", "null"}
  \/ v.type = "number" /\ v.num = 0
  \/ v.type = "string" /\ v.str = ""

\* apply(delta): the keys of delta that differ from #state are assigned to a copy
SubjectApply(pre, delta) ==
  LET differs == {key \in DOMAIN delta : ~ObjectIs(delta[key], Get(pre, key))}
  IN  IF differs # {}
      THEN [threw |-> FALSE, next |-> Assign(pre, [key \in differs |-> delta[key]]),
            emits |-> 1]
      ELSE [threw |-> FALSE, next |-> pre, emits |-> 0]

\* set(key, value)
SubjectSet(pre, key, value) == SubjectApply(pre, Single(key, value))

\* add(key, value)
SubjectAdd(pre, key, value) ==
  IF Falsy(Get(pre, key)) THEN SubjectSet(pre, key, Num(value))
  ELSE IF TypeOf(Get(pre, key)) = "number"
    THEN SubjectApply(pre, Single(key, Plus(Get(pre, key), value)))
  ELSE [threw |-> TRUE, next |-> pre, emits |-> 0]

\* sub(key, value)
SubjectSub(pre, key, value) ==
  IF Falsy(Get(pre, key)) THEN SubjectSet(pre, key, Num(value))
  ELSE IF TypeOf(Get(pre, key)) = "number"
    THEN SubjectApply(pre, Single(key, Minus(Get(pre, key), value)))
  ELSE [threw |-> TRUE, next |-> pre, emits |-> 0]

\* a call of the reporter of sv, with what it did
SubjectCall(op, key, value, r) ==
  /\ sv.calls < MaxSubjectCalls
  /\ sv' = [state |-> r.next, emitted |-> sv.emitted + r.emits, calls |-> sv.calls + 1,
            last |-> [op |-> op, key |-> key, value |-> value, pre |-> sv.state,
                      threw |-> r.threw],
            before |-> sv.last]

CallSubjectApply(delta) ==
  SubjectCall("apply", "", Undefined, SubjectApply(sv.state, delta))
CallSubjectSet(key, value) ==
  SubjectCall("set", key, value, SubjectSet(sv.state, key, value))
CallSubjectAdd(key, value) ==
  SubjectCall("add", key, Num(value), SubjectAdd(sv.state, key, value))
CallSubjectSub(key, value) ==
  SubjectCall("sub", key, Num(value), SubjectSub(sv.state, key, value))

(***************************************************************************)
(* A Reporter whose subscribers call it back. rx holds the committed       *)
(* state, the value of the BehaviorSubject with the number of the commit   *)
(* it came from, the commits in order (the first is the constructor's),    *)
(* and the observers of metrics$ in the order they subscribed. An observer *)
(* keeps the previous value of its distinctUntilChanged and the numbers of *)
(* the commits its callback was called with. The callback of an observer   *)
(* with `reacts` is                                                        *)
(*   (v) => { if (v.a === 1 && v.b === undefined) reporter.add("b", 1) }   *)
(* and the callback of the others only records.                            *)
(*                                                                         *)
(* subject.next(v) stores v and calls the observers one after the other,   *)
(* each to completion, so an apply made by a callback runs, commits and    *)
(* delivers to all observers before the callback returns and the outer     *)
(* delivery goes on to the next observer.                                  *)
(***************************************************************************)
Reacts(v) == Get(v, "a") = Num(1) /\ Get(v, "b") = Undefined

RECURSIVE ReentrantApply(_, _)
RECURSIVE Deliver(_, _, _, _, _)

\* observer i of metrics$ is handed v: distinctUntilChanged(shallowEqual), then the callback
DeliverOne(r, v, idx, i) ==
  LET o == r.obs[i]
      r1 == [r EXCEPT !.obs[i] = [o EXCEPT !.hasPrev = TRUE, !.prev = v,
                                           !.received = Append(@, idx)]]
  IN  IF o.hasPrev /\ shallowEqual(o.prev, v) THEN r
      ELSE IF o.reacts /\ Reacts(v) THEN ReentrantApply(r1, <<AddOp("b", 1)>>)
      ELSE r1

\* the loop of subject.next over the observers from i to n
Deliver(r, v, idx, i, n) ==
  IF i > n THEN r
  ELSE Deliver(DeliverOne(r, v, idx, i), v, idx, i + 1, n)

\* apply(...items): #state is assigned, then subject.next({ ...next })
ReentrantApply(r, items) ==
  LET res == ApplyResult(r.state, items)
      r1 == [r EXCEPT !.state = res.next, !.commits = Append(@, res.next),
                      !.value = res.next, !.valueIdx = Len(r.commits) + 1]
  IN  IF res.commit THEN Deliver(r1, res.next, Len(r.commits) + 1, 1, Len(r.obs))
      ELSE r

\* reporter.metrics$.subscribe(callback): the observer is added, then handed the value held
ReentrantSubscribe(reacts) ==
  /\ Len(rx.obs) < MaxObservers
  /\ rx' = DeliverOne([rx EXCEPT !.obs = Append(@, [reacts |-> reacts, hasPrev |-> FALSE,
                                                     prev |-> EmptyMap,
                                                     received |-> <<>>])],
                      rx.value, rx.valueIdx, Len(rx.obs) + 1)

\* a call of apply by the caller
ReentrantCall(items) ==
  /\ rx.calls < MaxReentrantCalls
  /\ rx' = [ReentrantApply(rx, items) EXCEPT !.calls = @ + 1]

(***************************************************************************)
(* ensure(p, { touchFile: true, maxRetries: 0 }) taken one awaited call of *)
(* the filesystem at a time, with another process that writes the file     *)
(* between them. No call of the system is made to fail here; with          *)
(* maxRetries 0 every error that is thrown ends the call in the catch      *)
(* block. ens.pc is the awaited call that comes next.                      *)
(***************************************************************************)
RaceCall(p) ==
  [pc |-> "statDir", path |-> resolve(p), dir |-> dirname(resolve(p)),
   createdDir |-> FALSE, result |-> NoResult, others |-> 0, before |-> "none"]

\* the call ends: it returns, or the catch block throws
RaceReturn(created) ==
  [ens EXCEPT !.pc = "done",
              !.result = [status |-> "ok", type |-> "file", created |-> created,
                          path |-> ens.path]]
RaceThrow(error) ==
  [ens EXCEPT !.pc = "done",
              !.result = [status |-> "error", err |-> Catch(error, 0, 0, ens.path).err]]

\* ensureDirectoryWithRetry: await stat(dirPath)
RaceStatDir ==
  /\ ens.pc = "statDir"
  /\ LET st == Stat(disk, ens.dir, "none")
     IN  ens' = IF st.err = NoErr
                  THEN IF st.entry # "dir"
                         THEN RaceThrow(PlainError("notDirectory", ens.dir))
                         ELSE [ens EXCEPT !.pc = "statFile"]
                ELSE IF st.err.code = "ENOENT" THEN [ens EXCEPT !.pc = "mkdir"]
                ELSE RaceThrow(st.err)
  /\ UNCHANGED disk

\* ensureDirectoryWithRetry: await mkdir(dirPath, { recursive: true })
RaceMkdir ==
  /\ ens.pc = "mkdir"
  /\ LET mk == Mkdir(disk, ens.dir, "none")
     IN  /\ disk' = mk.disk
         /\ ens' = IF mk.err = NoErr
                     THEN [ens EXCEPT !.pc = "statFile", !.createdDir = TRUE]
                     ELSE RaceThrow(mk.err)

\* ensureFileWithRetry: await stat(filePath)
RaceStatFile ==
  /\ ens.pc = "statFile"
  /\ LET st == Stat(disk, ens.path, "none")
     IN  ens' = IF st.err = NoErr
                  THEN IF ~IsFile(st.entry)
                         THEN RaceThrow(PlainError("notFile", ens.path))
                         ELSE RaceReturn(FALSE)
                ELSE IF st.err.code = "ENOENT" THEN [ens EXCEPT !.pc = "writeFile"]
                ELSE RaceThrow(st.err)
  /\ UNCHANGED disk

\* ensureFileWithRetry: await writeFile(filePath, "", { encoding, mode })
RaceWriteFile ==
  /\ ens.pc = "writeFile"
  /\ LET wr == WriteFile(disk, ens.path, "none")
     IN  /\ disk' = wr.disk
         /\ ens' = IF wr.err = NoErr
                     THEN [RaceReturn(TRUE) EXCEPT !.before = disk[ens.path]]
                     ELSE RaceThrow(wr.err)

\* another process writes "x" to the file, creating it when it is not there
OtherWrite ==
  /\ ens.pc # "done"
  /\ ens.others < MaxOtherWrites
  /\ WriteFile(disk, ens.path, "none").err = NoErr
  /\ disk' = [disk EXCEPT ![ens.path] = "file:x"]
  /\ ens' = [ens EXCEPT !.others = @ + 1]

(***************************************************************************)
(* A batch Reporter and a MetricsReporter constructed with the same        *)
(* initial map and given the same raw delta: pair.reporter is what         *)
(* reporter.apply(delta) did and pair.metrics what                         *)
(* metricsReporter.capture(delta) did.                                     *)
(***************************************************************************)
NotCalled == [threw |-> FALSE, commit |-> FALSE, next |-> EmptyMap, emits |-> <<>>]

PairApply ==
  /\ ~pair.applied
  /\ pair' = [pair EXCEPT !.applied = TRUE,
                          !.reporter = ApplyResult(pair.initial, <<Raw(pair.delta)>>)]

PairCapture ==
  /\ ~pair.captured
  /\ pair' = [pair EXCEPT !.captured = TRUE,
                          !.metrics = CaptureResult(pair.initial, pair.delta)]

(***************************************************************************)
(* SpecMatrix: one call of getNextMatrixItem on every jagged matrix of     *)
(* MaxRows rows of up to MaxCols cells, from every valid position, in the  *)
(* four directions. A cell is an available item, an unavailable item or,   *)
(* in the first column, null; the current row is full of available items   *)
(* when the move is up or down, where its cells are not looked at.         *)
(***************************************************************************)
CellKinds(col) == IF col = 1 THEN {"ok", "no", "null"} ELSE {"ok", "no"}

RowKinds == UNION {{k \in [1..len -> {"ok", "no", "null"}] :
                      \A col \in 1..len : k[col] \in CellKinds(col)} : len \in 0..MaxCols}

FullRows == {[col \in 1..len |-> "ok"] : len \in 1..MaxCols}

\* the matrix with the cells of the given kinds
MatrixOf(kinds) ==
  [r \in 1..Len(kinds) |->
     [c \in 1..Len(kinds[r]) |->
        [isNull |-> kinds[r][c] = "null", row |-> r - 1, col |-> c - 1,
         ok |-> kinds[r][c] = "ok"]]]

InitMatrix ==
  /\ ReporterUnused
  /\ eq = NoEq
  /\ disk = NoDisk
  /\ ens = NoEnsure
  /\ tree = NoTree
  /\ http = NoHttp
  /\ \E kinds \in [1..MaxRows -> RowKinds], row \in 0..(MaxRows - 1),
        col \in 0..(MaxCols - 1), direction \in {"up", "down", "left", "right"} :
       /\ col < Len(kinds[row + 1])
       /\ direction \in {"up", "down"} => kinds[row + 1] \in FullRows
       /\ direction \in {"left", "right"} =>
            \A r \in 1..MaxRows : r # row + 1 => kinds[r] = <<>>
       /\ nav = [matrix |-> MatrixOf(kinds), currentRow |-> row, currentCol |-> col,
                 direction |-> direction, done |-> FALSE, result |-> NoItem]
  /\ sv = NoSv /\ rx = NoRx /\ pair = NoPair

NextMatrix ==
  CallGetNextMatrixItem /\ UNCHANGED <<ReporterVars, eq, disk, ens, tree, http, sv, rx, pair>>

SpecMatrix == InitMatrix /\ [][NextMatrix]_vars

(***************************************************************************)
(* SpecSubject: up to MaxSubjectCalls calls of apply, set, add and sub on  *)
(* a Subject-based Reporter constructed with one of SubjectInitials.       *)
(***************************************************************************)
SubjectInitials ==
  { EmptyMap, Single("a", Num(0)), Single("a", Num(1)), Single("a", Str("s")),
    Single("a", NaN) }

NoSubjectCall == [op |-> "none", key |-> "", value |-> Undefined, pre |-> EmptyMap,
                  threw |-> FALSE]

SubjectDeltas == { [k \in Keys |-> Num(1)], Single("b", Undefined) }

InitSubject ==
  /\ ReporterUnused
  /\ eq = NoEq
  /\ disk = NoDisk
  /\ ens = NoEnsure
  /\ tree = NoTree
  /\ http = NoHttp
  /\ nav = NoNav
  /\ \E initial \in SubjectInitials :
       sv = [state |-> initial, emitted |-> 0, calls |-> 0, last |-> NoSubjectCall,
             before |-> NoSubjectCall]
  /\ rx = NoRx /\ pair = NoPair

OnlySubject == UNCHANGED <<ReporterVars, eq, disk, ens, tree, http, nav, rx, pair>>

NextSubject ==
  \/ \E delta \in SubjectDeltas : CallSubjectApply(delta) /\ OnlySubject
  \/ \E value \in {Num(n) : n \in 0..MaxNum} \cup {Str("s")} :
       CallSubjectSet("a", value) /\ OnlySubject
  \/ \E key \in Keys, value \in 1..MaxNum : CallSubjectAdd(key, value) /\ OnlySubject
  \/ \E key \in Keys, value \in 1..MaxNum : CallSubjectSub(key, value) /\ OnlySubject

SpecSubject == InitSubject /\ [][NextSubject]_vars

(***************************************************************************)
(* SpecEnsureRace: a call of ensure with touchFile on one of the paths, on *)
(* one of the filesystems of Disks, and another process that writes the    *)
(* same file up to MaxOtherWrites times at any point of the call.          *)
(***************************************************************************)
InitEnsureRace ==
  /\ ReporterUnused
  /\ eq = NoEq
  /\ disk \in Disks
  /\ ens \in {RaceCall(p) : p \in EnsurePaths}
  /\ tree = NoTree
  /\ LaterIdle

NextEnsureRace ==
  \/ RaceStatDir /\ OnlyEnsure
  \/ RaceMkdir /\ OnlyEnsure
  \/ RaceStatFile /\ OnlyEnsure
  \/ RaceWriteFile /\ OnlyEnsure
  \/ OtherWrite /\ OnlyEnsure

SpecEnsureRace == InitEnsureRace /\ [][NextEnsureRace]_vars

(***************************************************************************)
(* SpecPair: the two reporters on every initial map and every delta over   *)
(* Keys with the values of PairValues; a key can also be absent.           *)
(***************************************************************************)
PairValues == {Num(0), Num(1), NegZero, NaN, Undefined, Str("s")}

PairMaps == UNION {[ks -> PairValues] : ks \in SUBSET Keys}

InitPair ==
  /\ ReporterUnused
  /\ eq = NoEq
  /\ disk = NoDisk
  /\ ens = NoEnsure
  /\ tree = NoTree
  /\ http = NoHttp
  /\ nav = NoNav
  /\ sv = NoSv
  /\ rx = NoRx
  /\ \E initial \in PairMaps, delta \in PairMaps :
       pair = [initial |-> initial, delta |-> delta, applied |-> FALSE,
               captured |-> FALSE, reporter |-> NotCalled, metrics |-> NotCalled]

OnlyPair == UNCHANGED <<ReporterVars, eq, disk, ens, tree, http, nav, sv, rx>>

NextPair ==
  \/ PairApply /\ OnlyPair
  \/ PairCapture /\ OnlyPair

SpecPair == InitPair /\ [][NextPair]_vars

(***************************************************************************)
(* SpecReentrant: a reporter, up to MaxObservers subscribers of metrics$   *)
(* of which some call add from their callback, and up to                   *)
(* MaxReentrantCalls calls of the caller.                                  *)
(***************************************************************************)
ReentrantInitials == { EmptyMap, Single("a", Num(1)) }

ReentrantItems ==
  { <<SetOp("a", Num(1))>>, <<SetOp("a", Num(0))>>, <<AddOp("a", 1)>>,
    <<Raw(Single("b", Num(1)))>>, <<Raw(Single("b", Undefined))>> }

InitReentrant ==
  /\ ReporterUnused
  /\ eq = NoEq
  /\ disk = NoDisk
  /\ ens = NoEnsure
  /\ tree = NoTree
  /\ http = NoHttp
  /\ nav = NoNav
  /\ sv = NoSv
  /\ \E initial \in ReentrantInitials :
       rx = [state |-> initial, value |-> initial, valueIdx |-> 1,
             commits |-> <<initial>>, obs |-> <<>>, calls |-> 0]
  /\ pair = NoPair

OnlyReentrant == UNCHANGED <<ReporterVars, eq, disk, ens, tree, http, nav, sv, pair>>

NextReentrant ==
  \/ \E reacts \in BOOLEAN : ReentrantSubscribe(reacts) /\ OnlyReentrant
  \/ \E items \in ReentrantItems : ReentrantCall(items) /\ OnlyReentrant

SpecReentrant == InitReentrant /\ [][NextReentrant]_vars

(***************************************************************************)
(* Properties.                                                             *)
(*                                                                         *)
(* The reference for a batch is stated key by key: KeyAfter(S, items, n,   *)
(* k) is what key k holds after the first n items of the batch, started    *)
(* on S: has (the key exists) and val (its value).                         *)
(***************************************************************************)
RECURSIVE KeyAfter(_, _, _, _)
KeyAfter(S, items, n, k) ==
  IF n = 0 THEN [has |-> k \in DOMAIN S, val |-> Get(S, k)]
  ELSE LET before == KeyAfter(S, items, n - 1, k)
           item == items[n]
           cur == IF before.val.type = "number" THEN before.val ELSE Num(0)
       IN  CASE item.kind = "raw" /\ k \in DOMAIN item.delta ->
                  [has |-> TRUE, val |-> item.delta[k]]
             [] item.kind = "set" /\ item.key = k ->
                  [has |-> TRUE, val |-> item.value]
             [] item.kind = "add" /\ item.key = k ->
                  [has |-> TRUE, val |-> IF IsNaN(cur) THEN NaN ELSE Num(cur.num + item.amount)]
             [] item.kind = "sub" /\ item.key = k ->
                  [has |-> TRUE, val |-> IF IsNaN(cur) THEN NaN ELSE Num(cur.num - item.amount)]
             [] OTHER -> before

\* the state the batch leads to, as a map
Folded(S, items) ==
  [k \in {j \in Keys : KeyAfter(S, items, Len(items), j).has} |->
     KeyAfter(S, items, Len(items), k).val]

\* the net effect of the batch on S is the identity
NetIdentity(S, items) ==
  \A k \in Keys :
    LET after == KeyAfter(S, items, Len(items), k)
    IN  /\ after.has = (k \in DOMAIN S)
        /\ after.has => ObjectIs(after.val, S[k])

HasThrow(items) == \E i \in 1..Len(items) : items[i].kind = "throw"

ApplyOps == {"apply", "set", "add", "sub"}
MutatingOps == ApplyOps \cup {"prune", "transform"}

\* the subscribers that were attached when the last call was made
AttachedAtCall == {s \in Subs : call.modes[s] \in {"metrics", "watch"}}

\* what a subscriber received during the last call
ReceivedInCall(s) == Len(subs[s].received) - call.recv[s]

(***************************************************************************)
(* C1: a batch whose left-to-right fold gives a state shallow-equal to the *)
(* committed state makes apply hand nothing to subject.next, deliver       *)
(* nothing to the subscribers of metrics$, and leave snapshot() as it was. *)
(***************************************************************************)
C1_NetIdentityNoEmit ==
  (call.op = "apply" /\ ~HasThrow(call.items) /\ NetIdentity(call.pre, call.items)) =>
    /\ call.emits = <<>>
    /\ heap[state] = call.pre
    /\ commits[Len(commits)] = call.pre
    /\ \A s \in AttachedAtCall : ReceivedInCall(s) = 0

\* a batch of two items that changes a key and sets it back, seen by a subscriber
C1_Witness ==
  /\ call.op = "apply" /\ Len(call.items) = 2 /\ ~HasThrow(call.items)
  /\ NetIdentity(call.pre, call.items)
  /\ ~NetIdentity(call.pre, SubSeq(call.items, 1, 1))
  /\ 1 \in AttachedAtCall

(***************************************************************************)
(* C2: the state committed by apply(i1, ..., in) is the left-to-right fold *)
(* of the items: every key holds what the last item writing it gave it, an *)
(* Operation reading the value the earlier items of the batch left.        *)
(***************************************************************************)
C2_SequentialFold ==
  (call.op = "apply" /\ ~HasThrow(call.items)) =>
    /\ heap[state] = Folded(call.pre, call.items)
    /\ commits[Len(commits)] = Folded(call.pre, call.items)

\* set then add on the same key: the add reads what the set wrote
C2_Witness ==
  /\ call.op = "apply" /\ Len(call.items) = 2
  /\ call.items[1].kind = "set" /\ call.items[1].value = Num(1)
  /\ call.items[2].kind = "add" /\ call.items[2].amount = 1
  /\ call.items[1].key = call.items[2].key
  /\ Get(call.pre, call.items[1].key).type # "number"
  /\ Get(heap[state], call.items[1].key) = Num(2)

(***************************************************************************)
(* C3: a call of apply hands at most one value to subject.next, exactly    *)
(* one when the folded state differs from the committed state; the value   *)
(* is the final folded state, and an attached subscriber receives just     *)
(* that one, never the state after a prefix of the items.                  *)
(***************************************************************************)
C3_SingleEmission ==
  (call.op \in ApplyOps) =>
    /\ Len(call.emits) <= 1
    /\ ~call.threw =>
         ((Len(call.emits) = 1) <=> ~NetIdentity(call.pre, call.items))
    /\ Len(call.emits) = 1 =>
         /\ call.emits[1] = Folded(call.pre, call.items)
         /\ call.emits[1] = heap[state]
    /\ \A s \in AttachedAtCall :
         /\ subs[s].mode = "metrics" => ReceivedInCall(s) = Len(call.emits)
         /\ ReceivedInCall(s) = 1 =>
              subs[s].received[Len(subs[s].received)] = Folded(call.pre, call.items)

\* two items, the state after the first differs from the start and from the end
C3_Witness ==
  /\ call.op = "apply" /\ Len(call.items) = 2 /\ ~call.threw
  /\ Folded(call.pre, SubSeq(call.items, 1, 1)) # call.pre
  /\ Folded(call.pre, SubSeq(call.items, 1, 1)) # Folded(call.pre, call.items)
  /\ subs[1].mode = "metrics" /\ 1 \in AttachedAtCall
  /\ ReceivedInCall(1) = 1

(***************************************************************************)
(* C4: add(key, n) and sub(key, n) on a key that is present with a value   *)
(* that is not a number throw, and change neither the state nor the        *)
(* emission history.                                                       *)
(***************************************************************************)
C4_AddSubTypeGuard ==
  (/\ call.op \in {"add", "sub"}
   /\ call.items[1].key \in DOMAIN call.pre
   /\ TypeOf(call.pre[call.items[1].key]) # "number") =>
    /\ call.threw
    /\ heap[state] = call.pre
    /\ call.emits = <<>>

(***************************************************************************)
(* C5: when an Operation of the batch throws, apply throws, the committed  *)
(* state is what it was before the call, the effect of the items before    *)
(* the failing one included, and nothing is emitted.                       *)
(***************************************************************************)
C5_ThrowLeavesState ==
  (call.op = "apply" /\ HasThrow(call.items)) =>
    /\ call.threw
    /\ heap[state] = call.pre
    /\ commits[Len(commits)] = call.pre
    /\ call.emits = <<>>
    /\ \A s \in AttachedAtCall : ReceivedInCall(s) = 0

\* the first item changes the working copy, the second throws
C5_Witness ==
  /\ call.op = "apply" /\ Len(call.items) = 2
  /\ call.items[2].kind = "throw"
  /\ Folded(call.pre, SubSeq(call.items, 1, 1)) # call.pre
  /\ 1 \in AttachedAtCall
  /\ call.threw

(***************************************************************************)
(* The objects the reporter and its streams read: #state, the value of the *)
(* BehaviorSubject, and what distinctUntilChanged and pairwise remember    *)
(* for each subscriber.                                                    *)
(***************************************************************************)
ReporterRefs ==
  {state, subject}
    \cup {subs[s].ducPrev : s \in {t \in Subs : subs[t].hasPrev}}
    \cup {subs[s].pairPrev : s \in {t \in Subs : subs[t].pairPrev # 0}}

(***************************************************************************)
(* C6: a write to (or a delete on) an object returned by snapshot()        *)
(* changes no object the reporter reads, so that neither a later           *)
(* snapshot() nor a snapshot delivered later is affected.                  *)
(***************************************************************************)
C6_SnapshotIsolation ==
  [][(call'.op = "mutateSnapshot" /\ writes' = writes + 1) =>
       /\ state' = state /\ subject' = subject
       /\ \A r \in ReporterRefs : heap'[r] = heap[r]]_vars

\* the caller wrote to a snapshot taken after a commit, with a subscriber attached
C6_Witness ==
  /\ call.op = "mutateSnapshot"
  /\ calls >= 1 /\ Len(commits) >= 2
  /\ subs[1].mode = "metrics"
  /\ \E sn \in snaps : sn.by = "snapshot" /\ heap[sn.ref] # heap[state]

(***************************************************************************)
(* C7: the caller never gets the reporter's state map by reference, so no  *)
(* write of the caller to an object it was handed (a snapshot, an emitted  *)
(* snapshot, the state argument of a predicate, the constructor's initial  *)
(* map) changes the committed state.                                       *)
(***************************************************************************)
C7_NoReferenceLeak ==
  [][(writes' = writes + 1) => (state' = state /\ heap'[state] = heap[state])]_vars

WatchedChange(keys, before, after) ==
  {k \in keys : ~ObjectIs(Get(before, k), Get(after, k))}

C10_WatchKeyScoping ==
  \A s \in Subs :
    (call.op \in MutatingOps /\ call.modes[s] = "watch" /\ subs[s].keys # {}) =>
      /\ ReceivedInCall(s) =
           IF WatchedChange(subs[s].keys, call.pre, heap[state]) # {} THEN 1 ELSE 0
      /\ ReceivedInCall(s) = 1 =>
           subs[s].received[Len(subs[s].received)] = heap[state]

\* watch("a", "b"): a call that changed only one of the two keys delivered a value
C10_Witness ==
  /\ call.op \in MutatingOps /\ call.modes[1] = "watch"
  /\ subs[1].keys = {"a", "b"}
  /\ Cardinality(WatchedChange(subs[1].keys, call.pre, heap[state])) = 1
  /\ ReceivedInCall(1) = 1

(***************************************************************************)
(* The commits made after the first from ones that changed a watched key.  *)
(***************************************************************************)
WatchedCommits(keys, from) ==
  {i \in (from + 1)..Len(commits) :
     WatchedChange(keys, commits[i - 1], commits[i]) # {}}

(***************************************************************************)
(* C11: the baseline of a watch(keys) stream is the state committed when   *)
(* it is subscribed: subscribing delivers nothing, whatever was committed  *)
(* between watch() and subscribe(), and the subscriber has received one    *)
(* value for each commit made after the subscription that changed a        *)
(* watched key, and no other.                                              *)
(***************************************************************************)
C11_WatchBaseline ==
  \A s \in Subs :
    (subs[s].mode = "watch" /\ subs[s].keys # {}) =>
      Len(subs[s].received) = Cardinality(WatchedCommits(subs[s].keys, subs[s].at))

(***************************************************************************)
(* C12: a subscriber of watch() with no keys receives a value for every    *)
(* committed change, as a subscriber of metrics$ does.                     *)
(***************************************************************************)
C12_WatchAllWhenNoKeys ==
  \A s \in Subs :
    (call.op \in MutatingOps /\ call.modes[s] = "watch" /\ subs[s].keys = {}) =>
      ReceivedInCall(s) = Len(call.emits)

(***************************************************************************)
(* C13: after prune(predicates) on S the committed state holds exactly the *)
(* keys of S that every predicate accepts on (S, k), with their values     *)
(* from S; with no predicate every key survives.                           *)
(***************************************************************************)
Survives(S, predicates, k) ==
  k \in DOMAIN S /\ \A i \in 1..Len(predicates) : Pred(predicates[i], S, k)

C14_PruneEmitsIffRemoved ==
  [][(call'.op = "prune" /\ calls' = calls + 1) =>
       /\ Len(call'.emits) = IF DOMAIN heap'[state'] # DOMAIN heap[state] THEN 1 ELSE 0
       /\ Len(call'.emits) = 1 => call'.emits[1] = heap'[state']
       /\ \A s \in Subs :
            subs[s].mode = "metrics" =>
              Len(subs'[s].received) = Len(subs[s].received) + Len(call'.emits)
       /\ (call.op = "prune" /\ call.preds = call'.preds) =>
            /\ call'.emits = <<>>
            /\ heap'[state'] = heap[state]
            /\ commits' = commits]_vars

\* prune(notA) removed a and kept b, then the same prune again emitted nothing
C14_Witness ==
  /\ calls = 2 /\ call.op = "prune" /\ call.preds = <<"notA">>
  /\ Len(commits) = 2
  /\ DOMAIN commits[1] = {"a", "b"} /\ IsNaN(commits[1]["a"])
  /\ DOMAIN commits[2] = {"b"}
  /\ call.emits = <<>>
  /\ subs[1].mode = "metrics" /\ Len(subs[1].received) = 2

(***************************************************************************)
(* C15: after transform({ keep }) on S, with a keep list and no drop list, *)
(* the committed state holds exactly the keys of S that some keep          *)
(* predicate accepts on (S, k), with their values from S, and a snapshot   *)
(* is emitted exactly when a key was removed.                              *)
(***************************************************************************)
Retained(S, keep, k) ==
  k \in DOMAIN S /\ \E i \in 1..Len(keep) : Pred(keep[i], S, k)

C15_TransformRetains ==
  (call.op = "transform" /\ call.preds # <<>>) =>
    /\ \A k \in Keys :
         /\ (k \in DOMAIN heap[state]) <=> Retained(call.pre, call.preds, k)
         /\ k \in DOMAIN heap[state] => heap[state][k] = call.pre[k]
    /\ Len(call.emits) = IF heap[state] # call.pre THEN 1 ELSE 0

(***************************************************************************)
(* C16: extract(predicates, mode) returns a new map with exactly the keys  *)
(* of the state that every predicate accepts (mode "all") or that some     *)
(* predicate accepts (mode "any"), with their values; with no predicate    *)
(* "all" returns every key and "any" returns none.                         *)
(***************************************************************************)
Passes(S, predicates, mode, k) ==
  /\ k \in DOMAIN S
  /\ mode = "all" => \A i \in 1..Len(predicates) : Pred(predicates[i], S, k)
  /\ mode = "any" => \E i \in 1..Len(predicates) : Pred(predicates[i], S, k)

C16_ExtractSelects ==
  (call.op = "extract") =>
    /\ call.pre = heap[state]
    /\ call.ret \notin ReporterRefs
    /\ \A k \in Keys :
         /\ (k \in DOMAIN heap[call.ret]) <=> Passes(call.pre, call.preds, call.mode, k)
         /\ k \in DOMAIN heap[call.ret] => heap[call.ret][k] = call.pre[k]
    /\ (call.preds = <<>> /\ call.mode = "all") => heap[call.ret] = call.pre
    /\ (call.preds = <<>> /\ call.mode = "any") => heap[call.ret] = EmptyMap

\* mode "any" with two predicates returned a key that one of them rejects
C16_Witness ==
  /\ call.op = "extract" /\ call.mode = "any" /\ Len(call.preds) = 2
  /\ \E k \in DOMAIN heap[call.ret] :
       \E i \in 1..2 : ~Pred(call.preds[i], call.pre, k)

C18_NaNStable ==
  \A k \in Keys :
    (call.op \in {"set", "apply"} /\ call.items = <<Raw(Single(k, NaN))>>) =>
      LET already == k \in DOMAIN call.pre /\ IsNaN(call.pre[k])
      IN  /\ Len(call.emits) = IF already THEN 0 ELSE 1
          /\ already => (heap[state] = call.pre /\ commits[Len(commits)] = call.pre)
          /\ ~already => (k \in DOMAIN heap[state] /\ IsNaN(heap[state][k])
                          /\ call.emits[1] = heap[state])
          /\ \A s \in AttachedAtCall :
               subs[s].mode = "metrics" => ReceivedInCall(s) = Len(call.emits)

\* set("a", NaN) twice: the first was delivered, the second was not
C18_Witness ==
  /\ calls = 2 /\ call.op = "set" /\ call.items = <<Raw(Single("a", NaN))>>
  /\ Len(commits) = 2 /\ ~IsNaN(Get(commits[1], "a")) /\ IsNaN(Get(commits[2], "a"))
  /\ call.emits = <<>>
  /\ subs[1].mode = "metrics" /\ subs[1].at = 1 /\ Len(subs[1].received) = 2

(***************************************************************************)
(* C19: the update delivered on updates$ for a commit carries one record   *)
(* {key, before, after} for each key whose value differs between the state *)
(* committed before and the state committed, before being the earlier      *)
(* value (undefined for a new key) and after the new one, and carries the  *)
(* committed state as its snapshot.                                        *)
(***************************************************************************)
Diff(prev, next) ==
  {[key |-> k, before |-> Get(prev, k), after |-> next[k]] :
     k \in {j \in Keys : j \in DOMAIN next /\ Get(prev, j) # next[j]}}

C19_UpdateChanges ==
  \A s \in Subs :
    subs[s].mode = "updates" =>
      /\ Len(subs[s].updates) = 1 + (Len(commits) - subs[s].at)
      /\ \A i \in 2..Len(subs[s].updates) :
           LET c == subs[s].at + i - 1
           IN  /\ subs[s].updates[i].snapshot = commits[c]
               /\ subs[s].updates[i].changes = Diff(commits[c - 1], commits[c])

(***************************************************************************)
(* C20: on a state S, the Operation add(key, amount) returns               *)
(* {key: S[key] + amount} when S[key] is a number and {key: amount} when   *)
(* the key is absent or holds something else; sub(key, amount) returns     *)
(* {key: S[key] - amount} and {key: 0 - amount}; set(key, value) returns   *)
(* {key: value}. A call of apply with the one Operation commits S with     *)
(* that key replaced.                                                      *)
(***************************************************************************)
Numeric(S, k) == k \in DOMAIN S /\ S[k].type = "number"

Sum(S, k, amount) ==
  IF ~Numeric(S, k) THEN Num(amount)
  ELSE IF IsNaN(S[k]) THEN NaN ELSE Num(S[k].num + amount)

Expected(item, S) ==
  CASE item.kind = "set" -> item.value
    [] item.kind = "add" -> Sum(S, item.key, item.amount)
    [] item.kind = "sub" -> Sum(S, item.key, 0 - item.amount)

C20_OperationDeltas ==
  /\ \A key \in Keys, amount \in 0..1 :
       /\ DOMAIN OpAdd(key, amount, heap[state]) = {key}
       /\ OpAdd(key, amount, heap[state])[key] = Sum(heap[state], key, amount)
       /\ DOMAIN OpSub(key, amount, heap[state]) = {key}
       /\ OpSub(key, amount, heap[state])[key] = Sum(heap[state], key, 0 - amount)
       /\ \A value \in {Num(amount), NaN, Str("s")} :
            /\ DOMAIN OpSet(key, value, heap[state]) = {key}
            /\ OpSet(key, value, heap[state])[key] = value
  /\ (/\ call.op \in ApplyOps /\ Len(call.items) = 1
      /\ call.items[1].kind \in {"set", "add", "sub"}) =>
       \A k \in Keys :
         /\ k = call.items[1].key =>
              /\ k \in DOMAIN heap[state]
              /\ heap[state][k] = Expected(call.items[1], call.pre)
         /\ k # call.items[1].key =>
              /\ (k \in DOMAIN heap[state]) <=> (k \in DOMAIN call.pre)
              /\ Get(heap[state], k) = Get(call.pre, k)

\* sub(key, 1) on a key that held no number committed 0 - 1
C20_Witness ==
  /\ call.op \in {"sub", "apply"} /\ Len(call.items) = 1
  /\ call.items[1].kind = "sub" /\ call.items[1].amount = 1
  /\ ~Numeric(call.pre, call.items[1].key)
  /\ heap[state][call.items[1].key] = Num(0 - 1)

(***************************************************************************)
(* C21: a call of apply, set, add or sub removes no key: the keys of the   *)
(* committed state after the call include the keys before it, and a key    *)
(* the call does not write keeps its value.                                *)
(***************************************************************************)
Written21(items) ==
  UNION {IF items[i].kind = "raw" THEN DOMAIN items[i].delta
         ELSE IF items[i].kind = "throw" THEN {} ELSE {items[i].key} :
         i \in 1..Len(items)}

C21_ApplyKeepsKeys ==
  (call.op \in ApplyOps) =>
    /\ DOMAIN call.pre \subseteq DOMAIN heap[state]
    /\ DOMAIN call.pre \subseteq DOMAIN commits[Len(commits)]
    /\ \A k \in DOMAIN call.pre \ Written21(call.items) : heap[state][k] = call.pre[k]

\* a committed batch of two items on a state with two keys, one of them not written
C21_Witness ==
  /\ call.op = "apply" /\ Len(call.items) = 2 /\ Len(call.emits) = 1
  /\ DOMAIN call.pre = {"a", "b"}
  /\ Written21(call.items) = {"a"}

(***************************************************************************)
(* C22: no call of add made by a task is lost: when the key held a number  *)
(* at the start, it holds that number plus the number of tasks that made   *)
(* their call, whatever the order the tasks ran in, and every subscriber   *)
(* attached from the start has received one snapshot for each call.        *)
(***************************************************************************)
DoneTasks == {t \in DOMAIN tasks : tasks[t].pc = "done"}

C22_NoLostUpdate ==
  (tasks # NoTasks /\ Numeric(commits[1], TaskKey)) =>
    /\ TaskKey \in DOMAIN heap[state]
    /\ heap[state][TaskKey] = Num(commits[1][TaskKey].num + Cardinality(DoneTasks))
    /\ Len(commits) = 1 + Cardinality(DoneTasks)
    /\ \A s \in Subs :
         (subs[s].mode = "metrics" /\ subs[s].at = 1) =>
           Len(subs[s].received) = 1 + Cardinality(DoneTasks)

\* two tasks made their call on a numeric key, the second first, one through apply
C22_Witness ==
  /\ tasks # NoTasks /\ Numeric(commits[1], TaskKey)
  /\ Cardinality(DoneTasks) >= 2
  /\ tasks[2].cur = commits[1][TaskKey]
  /\ tasks[1].cur # commits[1][TaskKey]
  /\ call.op = "apply"
  /\ subs[1].mode = "metrics" /\ subs[1].at = 1

(***************************************************************************)
(* C23: shallowEqual(a, b) is true exactly when a and b have the same own  *)
(* enumerable keys and for every key the same value under Object.is (NaN   *)
(* is NaN; +0 is not -0, null is not undefined); it gives the same answer  *)
(* with its arguments exchanged, and false when the key counts differ.     *)
(* Two values of the model are the same under Object.is exactly when they  *)
(* are the same record.                                                    *)
(***************************************************************************)
PropsOf(v) == EqHeap[v.num].props

IsPrimitive(v) == v \in EqPrimitives

Nested(a, b) ==
  /\ ~IsPrimitive(a) /\ ~IsPrimitive(b) /\ a # b
  /\ EqHeap[a.num].kind = EqHeap[b.num].kind
  /\ DOMAIN PropsOf(a) = DOMAIN PropsOf(b)
  /\ Cardinality(DOMAIN PropsOf(a)) = 1
  /\ \A k \in DOMAIN PropsOf(a) : IsPrimitive(PropsOf(a)[k]) /\ IsPrimitive(PropsOf(b)[k])

C24_DeepEqualIdentity ==
  (eq.fn = "deepEqual") =>
    /\ (IsPrimitive(eq.a) /\ IsPrimitive(eq.b)) =>
         ((eq.result = "true") <=> (eq.a = eq.b))
    /\ Nested(eq.a, eq.b) =>
         ((eq.result = "true") <=> (PropsOf(eq.a) = PropsOf(eq.b)))

(***************************************************************************)
(* C25: deepEqual returns a boolean for every pair of arguments, two       *)
(* distinct objects that each refer to themselves included.                *)
(***************************************************************************)
C25_DeepEqualTerminates ==
  (eq.fn = "deepEqual") => eq.result \in {"true", "false"}

(***************************************************************************)
(* C26: a call of ensure with maxRetries >= 0 comes to an end, after at    *)
(* most maxRetries + 1 attempts; an attempt follows another only when that *)
(* one failed with a transient code; and when the attempt numbered         *)
(* maxRetries fails, the error thrown has the resolved path and the count  *)
(* maxRetries + 1.                                                         *)
(***************************************************************************)
EnsureBounded ==
  /\ ens.attempts <= ens.maxRetries + 1
  /\ ens.pc = "sleeping" => ens.lastErr.code \in TransientCodes
  /\ Len(ens.sleeps) = ens.attempt
  /\ (ens.pc = "done" /\ ens.lastErr # NoErr /\ ens.attempts = ens.maxRetries + 1) =>
       /\ ens.result.status = "error"
       /\ ens.result.err.kind = "failedAfter"
       /\ ens.result.err.path = resolve(ens.p)
       /\ ens.result.err.attempts = ens.maxRetries + 1

C26_BoundedRetries ==
  /\ []EnsureBounded
  /\ (ens.pc # "done") ~> (ens.pc = "done")

\* every attempt failed, the last one after two sleeps, on a path that resolve changes
C26_Witness ==
  /\ ens.pc = "done" /\ ens.maxRetries = MaxRetries /\ ens.attempts = MaxRetries + 1
  /\ ens.result.status = "error" /\ ens.result.err.kind = "failedAfter"
  /\ ens.p.segs # resolve(ens.p)

(***************************************************************************)
(* C27: when stat, mkdir or writeFile fails in an attempt with a code that *)
(* is not transient (EACCES, EPERM, ENOSPC or another), ensure fails in    *)
(* that attempt: no attempt follows and no delay is slept.                 *)
(***************************************************************************)
C27_FatalImmediately ==
  [][ (ens.pc = "running" /\ ens'.attempts = ens.attempts + 1
       /\ ens'.lastErr # NoErr /\ ens'.lastErr.code \notin TransientCodes)
      => (/\ ens'.pc = "done"
          /\ ens'.result.status = "error"
          /\ ens'.sleeps = ens.sleeps
          /\ ens'.attempt = ens.attempt) ]_vars

\* the second attempt failed for lack of space: one sleep, the one before it
C27_Witness ==
  /\ ens.pc = "done" /\ ens.maxRetries = 2 /\ ens.attempts = 2
  /\ ens.lastErr.code = "ENOSPC" /\ Len(ens.sleeps) = 1
  /\ ens.result.status = "error" /\ ens.result.err = ens.lastErr

(***************************************************************************)
(* C28: the same call of ensure made again, after the first returned and   *)
(* with the filesystem as the first left it, leaves every directory, file  *)
(* and content as it was, returns the type and the path the first          *)
(* returned, and does not fail unless the system fails a call.             *)
(***************************************************************************)
C28_Idempotent ==
  (ens.callNo = 2) =>
    /\ disk = ens.diskAfterFirst
    /\ (ens.pc = "done" /\ ens.result.status = "ok") =>
         /\ ens.result.type = ens.first.type
         /\ ens.result.path = ens.first.path
    /\ (ens.pc = "done" /\ ens.faults = 0) => ens.result.status = "ok"

\* the first call created the directories and the file, the second found them
C28_Witness ==
  /\ ens.callNo = 2 /\ ens.pc = "done" /\ ens.result.status = "ok"
  /\ ens.first.created /\ ~ens.result.created
  /\ ens.touchFile /\ disk[resolve(ens.p)] = "file:"

(***************************************************************************)
(* C29: whatever calls of the constructor, addChild, add, remove,          *)
(* removeSelf and clear were made, no two containers of the tree under the *)
(* root have the same id.                                                  *)
(***************************************************************************)
RECURSIVE Subtree(_, _)
Subtree(t, n) ==
  {n} \cup UNION {Subtree(t, t.nodes[n].children[i]) : i \in 1..Len(t.nodes[n].children)}

C29_UniqueIds ==
  \A a, b \in Subtree(tree, 1) : a # b => tree.nodes[a].id # tree.nodes[b].id

(***************************************************************************)
(* C30: when remove(id) or removeSelf() returns true and the container     *)
(* removed is not the root, findById from the root finds neither its id    *)
(* nor the id of any of its descendants, it finds every other container of *)
(* the tree as before, and the children of the containers that remain are  *)
(* in the order they were; remove(id) with an id no container of the tree  *)
(* has returns false and changes nothing of the tree.                      *)
(***************************************************************************)
\* the container a call of removeSelf or remove is to take out, 0 for none
Removed(t, last) ==
  IF last.op = "removeSelf" THEN last.node
  ELSE findById(t, getRoot(t, last.node), last.arg)

IdsOf(t, ns) == {t.nodes[n].id : n \in ns}

C30_RemoveStep ==
  LET last == tree'.last
      root == getRoot(tree, last.node)
      x == Removed(tree, last)
      gone == Subtree(tree, x)
      rest == Subtree(tree, root) \ gone
  IN  /\ (last.op \in {"remove", "removeSelf"} /\ last.ret = "true"
          /\ x # 0 /\ tree.nodes[x].parent # 0) =>
            /\ \A id \in IdsOf(tree, gone) : findById(tree', root, id) = 0
            /\ \A n \in rest : findById(tree', root, tree.nodes[n].id) = n
            /\ \A n \in rest :
                 tree'.nodes[n].children =
                   SelectSeq(tree.nodes[n].children, LAMBDA c : c # x)
      /\ (last.op = "remove" /\ x = 0) =>
            /\ last.ret = "false"
            /\ tree'.nodes = tree.nodes

C30_RemoveSemantics == [][C30_RemoveStep]_vars

(***************************************************************************)
(* C31: traverse calls the callback exactly once with every container of   *)
(* the subtree of the receiver and with nothing else; with "dfs" a         *)
(* container comes before its descendants and the subtree of a child comes *)
(* whole before the subtree of a later child; with "bfs" no container      *)
(* comes before a container of smaller depth.                              *)
(***************************************************************************)
PosIn(seq, n) == CHOOSE i \in 1..Len(seq) : seq[i] = n

RECURSIVE DepthBelow(_, _, _)
DepthBelow(t, top, n) == IF n = top THEN 0 ELSE 1 + DepthBelow(t, top, t.nodes[n].parent)

C31_Traverse ==
  (tree.last.op = "traverse") =>
    LET top == tree.last.node
        seq == tree.last.visited
        sub == Subtree(tree, top)
    IN  /\ Len(seq) = Cardinality(sub)
        /\ {seq[i] : i \in 1..Len(seq)} = sub
        /\ (tree.last.arg = "dfs") =>
             \A m \in sub :
               LET kids == tree.nodes[m].children
               IN  /\ \A d \in Subtree(tree, m) \ {m} : PosIn(seq, m) < PosIn(seq, d)
                   /\ \A i, j \in 1..Len(kids) :
                        i < j => \A a \in Subtree(tree, kids[i]), b \in Subtree(tree, kids[j]) :
                                   PosIn(seq, a) < PosIn(seq, b)
        /\ (tree.last.arg = "bfs") =>
             \A a, b \in sub :
               DepthBelow(tree, top, a) < DepthBelow(tree, top, b) =>
                 PosIn(seq, a) < PosIn(seq, b)

\* a level-order traversal that is not a pre-order one: a grandchild after a later child
C31_Witness ==
  /\ tree.last.op = "traverse" /\ tree.last.arg = "bfs"
  /\ tree.last.visited # dfs(tree, tree.last.node)
  /\ Len(tree.last.visited) = 4

(***************************************************************************)
(* C34: whatever calls of addChild, add, remove, removeSelf and clear were *)
(* made, a container N has the parent P exactly when N is a child of P,    *)
(* once; so a container taken out of the tree has no parent, and getRoot   *)
(* on it does not lead to the root of the tree it was in.                  *)
(***************************************************************************)
Occurrences(seq, n) == Cardinality({i \in 1..Len(seq) : seq[i] = n})

C34_TreeShape ==
  /\ \A n, p \in Containers :
       (tree.nodes[n].parent = p) <=> (Occurrences(tree.nodes[p].children, n) = 1)
  /\ \A n \in Containers \ Subtree(tree, 1) : getRoot(tree, n) # 1

(***************************************************************************)
(* C32: set, inc and dec with a status change the bucket of the category   *)
(* of the status and no other; they return before, the value the bucket    *)
(* had, and after, which is n, before + n and before - n, and which is     *)
(* the value of the bucket after the call, possibly below zero.            *)
(***************************************************************************)
\* the category of a status by its hundreds
CategoryOf(status) ==
  <<"informational", "successful", "redirection", "clientError", "serverError">>[status \div 100]

C32_BucketStep ==
  LET last == http'.last
      cat == CategoryOf(last.status)
  IN  (last.op \in {"set", "inc", "dec"} /\ http'.calls = http.calls + 1 /\ last.threw = "") =>
        /\ \A other \in HTTPStatusCategory \ {cat} : http'.buckets[other] = http.buckets[other]
        /\ last.before = http.buckets[cat]
        /\ last.after = CASE last.op = "set" -> last.n
                          [] last.op = "inc" -> last.before + last.n
                          [] last.op = "dec" -> last.before - last.n
        /\ http'.buckets[cat] = last.after

C32_BucketFrame == [][C32_BucketStep]_vars

\* a dec took a bucket below zero while another bucket holds a count
C32_Witness ==
  /\ http.last.op = "dec" /\ http.last.threw = "" /\ http.last.after < 0
  /\ \E other \in HTTPStatusCategory : http.buckets[other] > 0

(***************************************************************************)
(* C33: getHTTPStatusClassification gives a category for every integer     *)
(* status from 100 to 599 and throws a RangeError for every other one;     *)
(* status, set, inc and dec with a status outside 100..599 throw the       *)
(* RangeError and leave every bucket as it was.                            *)
(***************************************************************************)
C33_RangeStep ==
  LET last == http'.last
      inside == last.status >= 100 /\ last.status <= 599
  IN  (http' # http) =>
        /\ (last.op = "classify" /\ inside) =>
             last.threw = "" /\ last.category = CategoryOf(last.status)
        /\ ~inside => last.threw = "RangeError" /\ http'.buckets = http.buckets
        /\ inside => last.threw = ""

C33_RangeError == [][C33_RangeStep]_vars

\* a set with status 600 threw, on buckets that hold a count
C33_Witness ==
  /\ http.last.op = "set" /\ http.last.status = 600 /\ http.last.threw = "RangeError"
  /\ \E c \in HTTPStatusCategory : http.buckets[c] > 0

(***************************************************************************)
(* C35: getNextMatrixItem up (down) from a valid position returns          *)
(* undefined exactly when no row above (below) the current row has a       *)
(* non-null item that isAvailable accepts; otherwise it returns, from the  *)
(* nearest such row, the available item at the closest column at or left   *)
(* of min(currentCol, rowLength - 1) or, when there is none, the closest   *)
(* available item right of that column.                                    *)
(***************************************************************************)
AvailableCols(row) == {c \in 0..(Len(row) - 1) : ~At(row, c).isNull /\ At(row, c).ok}

Largest(S) == CHOOSE x \in S : \A y \in S : y <= x
Smallest(S) == CHOOSE x \in S : \A y \in S : x <= y

C36_SubSubtracts ==
  /\ (sv.calls > 0 /\ sv.last.op = "sub" /\
      TypeOf(Get(sv.last.pre, sv.last.key)) \in {"number", "undefined"}) =>
       LET n == IF sv.last.key \in DOMAIN sv.last.pre
                  THEN sv.last.pre[sv.last.key] ELSE Num(0)
       IN  Get(sv.state, sv.last.key) = Minus(n, sv.last.value.num)
  /\ (sv.calls > 1 /\ sv.last.op = "sub" /\ sv.before.op = "add" /\
      sv.last.key = sv.before.key /\ sv.last.value = sv.before.value /\
      TypeOf(Get(sv.before.pre, sv.before.key)) = "number" /\
      ~IsNaN(Get(sv.before.pre, sv.before.key))) =>
       Get(sv.state, sv.last.key) = Get(sv.before.pre, sv.before.key)

(***************************************************************************)
(* C37: after any sequence of apply, set, add, sub, prune and transform    *)
(* calls the value the BehaviorSubject holds, which a new subscriber is    *)
(* handed first, is shallow-equal to the committed state and is another    *)
(* object than the committed state.                                        *)
(***************************************************************************)
SubjectMatches == subject # state /\ shallowEqual(heap[subject], heap[state])

C37_SubjectHoldsState ==
  [][(calls' = calls + 1 /\ SubjectMatches) => SubjectMatches']_vars

\* the same for the calls whose predicates and operations only read their arguments
C37_PureCalls ==
  [][(calls' = calls + 1 /\ call'.op # "mutatePredicateState" /\ SubjectMatches)
       => SubjectMatches']_vars

(***************************************************************************)
(* C38: when the callback of a subscriber calls apply, set, add or sub     *)
(* while a snapshot is being delivered, every other subscriber receives    *)
(* the snapshots in the order of the commits, and the last one it          *)
(* received is the committed state.                                        *)
(***************************************************************************)
C38_CommitOrder ==
  \A i \in 1..Len(rx.obs) :
    ~rx.obs[i].reacts =>
      LET received == rx.obs[i].received
      IN  /\ \A j \in 1..(Len(received) - 1) : received[j] < received[j + 1]
          /\ rx.commits[received[Len(received)]] = rx.state

\* without a subscriber that calls back, the order of the commits is kept
C38_PassiveOnly ==
  (\A i \in 1..Len(rx.obs) : ~rx.obs[i].reacts) =>
    \A i \in 1..Len(rx.obs) :
      LET received == rx.obs[i].received
      IN  /\ \A j \in 1..(Len(received) - 1) : received[j] < received[j + 1]
          /\ received[Len(received)] = Len(rx.commits)

(***************************************************************************)
(* C39: ensure(path, {touchFile: true}) never changes the content of a     *)
(* file that exists when its write happens: when another process created   *)
(* or wrote the file between the stat and the writeFile of ensure, the     *)
(* content after ensure returned is what the other process wrote.          *)
(***************************************************************************)
C39_KeepsContent ==
  [][(ens.pc = "writeFile" /\ ens'.pc = "done" /\ IsFile(disk[ens.path]))
       => disk'[ens.path] = disk[ens.path]]_vars

\* without another process, writeFile only ever creates the file
C39_AloneCreates ==
  [][(ens.pc = "writeFile" /\ ens'.pc = "done" /\ ens.others = 0)
       => ~IsFile(disk[ens.path])]_vars

(***************************************************************************)
(* C40: from equal states and for one raw delta d, Reporter.apply(d) and   *)
(* MetricsReporter.capture(d) commit the same state, with the same keys    *)
(* and values, and emit the same number of snapshots; also for a d that    *)
(* maps a key the state does not have to undefined.                        *)
(***************************************************************************)
C40_ApplyIsCapture ==
  (pair.applied /\ pair.captured) =>
    /\ DOMAIN pair.reporter.next = DOMAIN pair.metrics.next
    /\ \A k \in DOMAIN pair.reporter.next :
         ObjectIs(pair.reporter.next[k], pair.metrics.next[k])
    /\ Len(pair.reporter.emits) = Len(pair.metrics.emits)

\* the two agree when d gives undefined to no key that is absent from the state
C40_DefinedDeltas ==
  (/\ pair.applied /\ pair.captured
   /\ \A k \in DOMAIN pair.delta :
        (pair.delta[k] = Undefined) => k \in DOMAIN pair.initial) =>
    /\ DOMAIN pair.reporter.next = DOMAIN pair.metrics.next
    /\ \A k \in DOMAIN pair.reporter.next :
         ObjectIs(pair.reporter.next[k], pair.metrics.next[k])
    /\ Len(pair.reporter.emits) = Len(pair.metrics.emits)

=============================================================================
